---- MODULE Spec2Model ----
(***************************************************************************)
(* Room orchestrator of grand-secretariat (services/room): the in-memory   *)
(* Store, the HandlerRegistry, the per-stream StreamHandler and the        *)
(* per-handler LLMDispatcher.                                              *)
(*                                                                         *)
(* Scheduling.  The service runs on one asyncio event loop.  A step of the *)
(* model is the run of one coroutine from one real suspension point to the *)
(* next.  `await` of a coroutine that never suspends runs inline: every    *)
(* MemoryStore method (no await inside), HandlerRegistry.broadcast and     *)
(* StreamHandler.enqueue (asyncio.Queue() is unbounded, so put() never     *)
(* waits).  The real suspension points are: reading the next client frame, *)
(* reading the next provider delta, channel.close(), `await task` in       *)
(* cancel_llm_task and asyncio.gather in cancel_pending_tasks.             *)
(*                                                                         *)
(* Strings that are compared or ordered by the code (message ids, sort     *)
(* keys, cursors) are sequences of character codes, compared as Python     *)
(* compares str.                                                           *)
(***************************************************************************)
EXTENDS Integers, Sequences, FiniteSets, TLC

VARIABLES
    messages,   \* MemoryStore._messages: room_id -> list of StoredMessage
    clock,      \* wall clock read by _now(), in microseconds
    uuidCount,  \* number of uuid4() values drawn so far
    hist,       \* the load_history call made on the current history, and its result
    walk,       \* a client paging through load_history with next_cursor
    rooms,      \* MemoryStore._rooms: room_id -> StoredRoom
    participants, \* MemoryStore._participants: the (room_id, user_id) keys
    polls,      \* MemoryStore._polls, in creation order
    registry,   \* HandlerRegistry._handlers: room_id -> set of handlers
    handler,    \* per StreamHandler: _room_id, _user_id and where run() stands
    outbound,   \* per StreamHandler: every event put on _outbound, in order
    tasks,      \* the asyncio tasks running call_llm / call_llm_for_poll
    pending,    \* per handler: LLMDispatcher._pending_tasks
    active,     \* per handler: LLMDispatcher._active_llm_tasks
    nframes,    \* client frames read so far
    bcasts,     \* every Registry broadcast: the event, the room's handlers then
    intr,       \* what each interrupt frame found and did
    query       \* the read-only call under study (mention resolution, room listing) and its results

storeVars == <<messages, clock, uuidCount>>
histVars == <<hist, walk, query>>
sessVars == <<rooms, participants, polls, registry, handler, outbound, tasks,
              pending, active, nframes, bcasts, intr>>
vars == <<messages, clock, uuidCount, hist, walk, rooms, participants, polls,
          registry, handler, outbound, tasks, pending, active, nframes, bcasts, intr,
          query>>

---------------------------------------------------------------------------
\* Bounds of the model.

\* messages appended to one room
MaxMsgs == 5
\* largest limit passed to load_history
MaxLimit == 2

---------------------------------------------------------------------------
\* Characters and strings.

ChHash == 35
ChZero == 48

\* the decimal digit d as a character
Digit(d) == ChZero + d

\* the hex digit n (0..15) as a character of uuid4().hex
HexDigit(n) == IF n < 10 THEN ChZero + n ELSE 87 + n

\* str(n) for a non-negative int, as f"{epoch_ms}" formats it
RECURSIVE DecStr(_)
DecStr(n) == IF n < 10 THEN <<Digit(n)>> ELSE Append(DecStr(n \div 10), Digit(n % 10))

\* Python's str < str: lexicographic by code point, a proper prefix is smaller
RECURSIVE StrLess(_, _)
StrLess(a, b) ==
    IF b = <<>> THEN FALSE
    ELSE IF a = <<>> THEN TRUE
    ELSE IF a[1] # b[1] THEN a[1] < b[1]
    ELSE StrLess(Tail(a), Tail(b))

StrLeq(a, b) == a = b \/ StrLess(a, b)

\* None and "" (both falsy in `if cursor:` and `message_id or ...`)
NoStr == <<>>

\* None and "" for the names kept symbolic (room ids, user ids)
NoName == ""

---------------------------------------------------------------------------
\* Store: messages.

\* the rooms, created before the sessions start
Rooms == {"r1", "r2"}
\* the rooms whose history is written and paged in the store model
PagedRooms == {"r1"}
Handlers == {"h1", "h2"}
Users == {"u1", "u2"}
\* the LLM configurations of each room (ids), in list order
RoomLLMs == <<"claude", "gemini">>
LLMIds == {RoomLLMs[i] : i \in 1..Len(RoomLLMs)}
\* LLMConfig: the id and, of the attributes update_llm can set, the model
LLMConfig(id, model) == [id |-> id, model |-> model]
DefaultModel == "m0"
RoomLLMConfigs == [i \in 1..Len(RoomLLMs) |-> LLMConfig(RoomLLMs[i], DefaultModel)]
\* [llm.id for llm in llms]
LLMIdsOf(llms) == [i \in 1..Len(llms) |-> llms[i].id]

UsPerMs == 1000

\* the first instant of the modelled window; epoch_ms keeps its digit count in it
Epoch0Us == 1000 * UsPerMs

\* leading characters uuid4().hex may start with ('3' and 'c')
HexHeads == {51, 99}

\* elapsed wall-clock time between two reads of _now(), in microseconds
ClockSteps == {500, 1000}

\* uuid.uuid4().hex[:16]: a random id, distinct from every id drawn before.
\* The leading character is random; the tail is the serial number of the
\* draw, which keeps ids collision-free.
uuid4(head, n) == <<head, HexDigit(n)>>

\* _now() after dt microseconds have passed
now(dt) == clock + dt

\* f"MSG#{epoch_ms}#{msg_id}" with epoch_ms = int(dt.timestamp() * 1000)
make_sort_key(dt, msg_id) ==
    <<77, 83, 71, ChHash>> \o DecStr(dt \div UsPerMs) \o <<ChHash>> \o msg_id

StoredMessage(msg_id, sender_id, sender_type, content, reply_to, ts, poll_id) ==
    [message_id |-> msg_id, sender_id |-> sender_id, sender_type |-> sender_type,
     content |-> content, reply_to |-> reply_to, timestamp |-> ts,
     sort_key |-> make_sort_key(ts, msg_id), poll_id |-> poll_id]

add_message_front(msgs, msg) == <<msg>> \o msgs

\* MemoryStore.add_message: the room's list after the append
add_message(msgs, msg) == Append(msgs, msg)

\* index (1-based) of the first message whose sort_key equals cursor, 0 if none
CursorIndex(msgs, cursor) ==
    IF \E i \in 1..Len(msgs) : msgs[i].sort_key = cursor
    THEN CHOOSE i \in 1..Len(msgs) :
            /\ msgs[i].sort_key = cursor
            /\ \A j \in 1..(i - 1) : msgs[j].sort_key # cursor
    ELSE 0

Max(a, b) == IF a >= b THEN a ELSE b

load_history_inclusive(msgs, limit, cursor) ==
    LET end == IF cursor # NoStr /\ CursorIndex(msgs, cursor) > 0
               THEN CursorIndex(msgs, cursor)
               ELSE Len(msgs)
        start == Max(0, end - limit)
        page == SubSeq(msgs, start + 1, end)
    IN  IF start > 0 /\ page = <<>>
        THEN [page |-> <<>>, next_cursor |-> NoStr, raised |-> TRUE]
        ELSE [page |-> page,
              next_cursor |-> IF start > 0 THEN page[1].sort_key ELSE NoStr,
              raised |-> FALSE]

load_history_newest_cursor(msgs, limit, cursor) ==
    LET end == IF cursor # NoStr /\ CursorIndex(msgs, cursor) > 0
               THEN CursorIndex(msgs, cursor) - 1
               ELSE Len(msgs)
        start == Max(0, end - limit)
        page == SubSeq(msgs, start + 1, end)
    IN  IF start > 0 /\ page = <<>>
        THEN [page |-> <<>>, next_cursor |-> NoStr, raised |-> TRUE]
        ELSE [page |-> page,
              next_cursor |-> IF start > 0 THEN page[Len(page)].sort_key ELSE NoStr,
              raised |-> FALSE]

\* MemoryStore.load_history.  end and start are the 0-based slice bounds of
\* the code; page[0] of an empty page with start > 0 raises IndexError.
load_history(msgs, limit, cursor) ==
    LET end == IF cursor # NoStr /\ CursorIndex(msgs, cursor) > 0
               THEN CursorIndex(msgs, cursor) - 1
               ELSE Len(msgs)
        start == Max(0, end - limit)
        page == SubSeq(msgs, start + 1, end)
    IN  IF start > 0 /\ page = <<>>
        THEN [page |-> <<>>, next_cursor |-> NoStr, raised |-> TRUE]
        ELSE [page |-> page,
              next_cursor |-> IF start > 0 THEN page[1].sort_key ELSE NoStr,
              raised |-> FALSE]

---------------------------------------------------------------------------
\* Store specifications: one room, messages appended by add_message, history
\* read by load_history.

NoHist == [called |-> FALSE]
NoWalk == [on |-> FALSE]
NoQuery == [kind |-> "none"]

\* StoredRoom; requested is not a field of the store: it records the
\* visibility the CreateRoomRequest of the room asked for
StoredRoom(room_id, created_by, llms, visibility, created_at, requested) ==
    [room_id |-> room_id, created_by |-> created_by, llms |-> llms,
     visibility |-> visibility, created_at |-> created_at, requested |-> requested]
\* the rooms created before the sessions start: public rooms of u1, r1 the
\* older one
FirstRooms ==
    [r \in Rooms |-> StoredRoom(r, "u1", RoomLLMConfigs, "public",
                               IF r = "r1" THEN Epoch0Us - 2 * UsPerMs
                                           ELSE Epoch0Us - UsPerMs, "public")]

Init ==
    /\ messages = [r \in Rooms |-> <<>>]
    /\ clock = Epoch0Us
    /\ uuidCount = 0
    /\ hist = NoHist
    /\ walk = NoWalk
    /\ rooms = FirstRooms
    /\ participants = {}
    /\ polls = <<>>
    /\ registry = [r \in Rooms |-> {}]
    /\ handler = [h \in Handlers |-> [room_id |-> NoName, user_id |-> NoName,
                                       pc |-> "read", await |-> 0,
                                      writer |-> "run", sent |-> 0]]
    /\ outbound = [h \in Handlers |-> <<>>]
    /\ tasks = <<>>
    /\ pending = [h \in Handlers |-> {}]
    /\ active = [h \in Handlers |-> [l \in LLMIds |-> 0]]
    /\ nframes = 0
    /\ bcasts = <<>>
    /\ intr = {}
    /\ query = NoQuery

\* add_message(room_id, ...) without message_id: id from uuid4, stamp from _now
StoreAdd(r, head, dt) ==
    /\ Len(messages[r]) < MaxMsgs
    /\ LET msg == StoredMessage(uuid4(head, uuidCount), "u1", "HUMAN", "text",
                                NoStr, now(dt), NoStr)
       IN  messages' = [messages EXCEPT ![r] = add_message(@, msg)]
    /\ clock' = now(dt)
    /\ uuidCount' = uuidCount + 1
    /\ hist' = NoHist
    /\ UNCHANGED walk
    /\ UNCHANGED <<sessVars, query>>

\* a cursor that is the sort key of no message
StrayCursor == make_sort_key(0, <<ChZero>>)

Cursors(r) == {NoStr, StrayCursor} \cup {messages[r][i].sort_key : i \in 1..Len(messages[r])}

\* one load_history(room_id, limit, cursor) call
StoreLoad(r, limit, cursor) ==
    /\ hist' = [called |-> TRUE, room |-> r, limit |-> limit, cursor |-> cursor,
                result |-> load_history(messages[r], limit, cursor)]
    /\ UNCHANGED <<messages, clock, uuidCount, walk>>
    /\ UNCHANGED <<sessVars, query>>

StoreNext ==
    \/ \E r \in PagedRooms, head \in HexHeads, dt \in ClockSteps : StoreAdd(r, head, dt)
    \/ \E r \in PagedRooms, limit \in 0..MaxLimit :
            \E cursor \in Cursors(r) : StoreLoad(r, limit, cursor)

SpecStore == Init /\ [][StoreNext]_vars

\* A client reads the whole history: first call without a cursor ...
WalkStart(r, limit) ==
    /\ ~walk.on
    /\ LET res == load_history(messages[r], limit, NoStr)
       IN  walk' = [on |-> TRUE, room |-> r, limit |-> limit, n0 |-> Len(messages[r]),
                    pages |-> res.page, npages |-> 1, cursor |-> res.next_cursor,
                    sizes |-> <<Len(res.page)>>]
    /\ UNCHANGED <<messages, clock, uuidCount, hist>>
    /\ UNCHANGED <<sessVars, query>>

\* ... then with each returned next_cursor, until none is returned
WalkNext ==
    /\ walk.on
    /\ walk.cursor # NoStr
    /\ LET res == load_history(messages[walk.room], walk.limit, walk.cursor)
       IN  walk' = [walk EXCEPT !.pages = res.page \o @, !.npages = @ + 1,
                                !.cursor = res.next_cursor,
                                !.sizes = Append(@, Len(res.page))]
    /\ UNCHANGED <<messages, clock, uuidCount, hist>>
    /\ UNCHANGED <<sessVars, query>>

WalkNextStep ==
    \/ \E r \in PagedRooms, head \in HexHeads, dt \in ClockSteps : StoreAdd(r, head, dt)
    \/ \E r \in PagedRooms, limit \in 1..MaxLimit : WalkStart(r, limit)
    \/ WalkNext

SpecWalk == Init /\ [][WalkNextStep]_vars

---------------------------------------------------------------------------
\* Bounds of the session model.

\* client frames read over all streams, in each of the three models
MaxFrames == 3
MaxInterruptFrames == 4
MaxRoomFrames == 4
\* LLM tasks created over all dispatchers
MaxTasks == 2
\* content deltas the provider streams over all calls
MaxChunks == 2
MaxCloseFrames == 4
MaxWriterFrames == 4
MaxJoinFrames == 4
\* client frames read over all streams in the chain model
MaxChainFrames == 3
\* client frames read over all streams in the LLM administration model
MaxAdminFrames == 4
\* client frames read over all streams in the room listing model
MaxListFrames == 2
\* client frames read over all streams in the model of paging the room list
MaxListWalkFrames == 3
\* mention tokens in one message or reply
MaxMentions == 2
\* client frames read over all streams in the poll model
MaxPollFrames == 4
\* votes stored through vote_on_poll tool calls and cast_vote frames, after
\* which the LLMs issue no further tool call
MaxVotes == 3

---------------------------------------------------------------------------
\* Registry.

\* HandlerRegistry.register (_handlers is a defaultdict(set))
register(reg, room_id, h) ==
    IF room_id \in DOMAIN reg
    THEN [reg EXCEPT ![room_id] = @ \cup {h}]
    ELSE [x \in DOMAIN reg \cup {room_id} |-> IF x = room_id THEN {h} ELSE reg[x]]

\* HandlerRegistry.unregister (an emptied entry is deleted: the empty set here)
unregister(reg, room_id, h) ==
    IF room_id \in DOMAIN reg THEN [reg EXCEPT ![room_id] = @ \ {h}] ELSE reg

\* self._handlers.get(room_id, set())
RoomHandlers(reg, room_id) == IF room_id \in DOMAIN reg THEN reg[room_id] ELSE {}

\* HandlerRegistry.get_online_user_ids
get_online_user_ids(reg, hd, room_id) ==
    {hd[h].user_id : h \in RoomHandlers(reg, room_id)}

\* StreamHandler.enqueue: put on the handler's unbounded queue
enqueue(ob, h, ev) == [ob EXCEPT ![h] = Append(@, ev)]

broadcast_lifo(ob, reg, room_id, ev) ==
    [h \in DOMAIN ob |->
        IF h \in RoomHandlers(reg, room_id) THEN <<ev>> \o ob[h] ELSE ob[h]]

broadcast_twice(ob, reg, room_id, ev) ==
    [h \in DOMAIN ob |->
        IF h \in RoomHandlers(reg, room_id) THEN ob[h] \o <<ev, ev>> ELSE ob[h]]

\* HandlerRegistry.broadcast: the handler set is copied, then each is enqueued
broadcast(ob, reg, room_id, ev) ==
    [h \in DOMAIN ob |->
        IF h \in RoomHandlers(reg, room_id) THEN Append(ob[h], ev) ELSE ob[h]]

broadcast_except_nobody(ob, reg, hd, room_id, ev, exclude_user_id) ==
    [h \in DOMAIN ob |->
        IF h \in RoomHandlers(reg, room_id) THEN Append(ob[h], ev) ELSE ob[h]]

\* HandlerRegistry.broadcast_except
broadcast_except(ob, reg, hd, room_id, ev, exclude_user_id) ==
    [h \in DOMAIN ob |->
        IF h \in RoomHandlers(reg, room_id) /\ hd[h].user_id # exclude_user_id
        THEN Append(ob[h], ev)
        ELSE ob[h]]

---------------------------------------------------------------------------
\* Server events.  seq is the serial number of the broadcast that carried the
\* event (0 for an event enqueued to one handler) and call the task that the
\* event is about; neither is on the wire, they identify events in the claims.

EvRoomState(msgs, parts, online, open_polls) ==
    [type |-> "room_state", seq |-> 0,
     messages |-> [i \in 1..Len(msgs) |-> msgs[i].message_id],
     participants |-> {[id |-> p[2], is_online |-> p[2] \in online] : p \in parts},
     polls |-> open_polls]
EvError(code, call, k) == [type |-> "error", seq |-> k, code |-> code, call |-> call]
EvUserJoined(u, k) == [type |-> "user_joined", seq |-> k, user_id |-> u]
EvUserLeft(u, k) == [type |-> "user_left", seq |-> k, user_id |-> u]
EvUserTyping(u, k) == [type |-> "user_typing", seq |-> k, user_id |-> u]
EvMessageReceived(m, k) ==
    [type |-> "message_received", seq |-> k, message_id |-> m.message_id]
EvPollCreated(poll_id, k) == [type |-> "poll_created", seq |-> k, poll_id |-> poll_id]
EvPollVoted(poll_id, option_id, voter_id, k) ==
    [type |-> "poll_voted", seq |-> k, poll_id |-> poll_id, option_id |-> option_id,
     voter_id |-> voter_id]
EvPollClosed(poll_id, closed_by_id, k) ==
    [type |-> "poll_closed", seq |-> k, poll_id |-> poll_id,
     closed_by_id |-> closed_by_id]
EvThinking(llm_id, reply_to, call, k) ==
    [type |-> "llm_thinking", seq |-> k, llm_id |-> llm_id, reply_to |-> reply_to,
     call |-> call]
EvChunk(msg_id, llm_id, content, reply_to, call, n, k) ==
    [type |-> "llm_chunk", seq |-> k, message_id |-> msg_id, llm_id |-> llm_id,
     content |-> content, reply_to |-> reply_to, call |-> call, n |-> n]
EvDone(msg_id, llm_id, call, k) ==
    [type |-> "llm_done", seq |-> k, message_id |-> msg_id, llm_id |-> llm_id,
     call |-> call]

\* The pair (queues, broadcast record) threaded through the broadcasts of one
\* step.  The record keeps, per broadcast, the event, the room, the handlers
\* registered to the room when it started and their user ids.
World(ob, log) == [ob |-> ob, log |-> log]
NextSeq(w) == Len(w.log) + 1
Logged(w, reg, hd, room_id, ev, subject) ==
    Append(w.log, [ev |-> ev, room |-> room_id, to |-> RoomHandlers(reg, room_id),
                   uid |-> [h \in DOMAIN hd |-> hd[h].user_id], subject |-> subject])
Bcast(w, reg, hd, room_id, ev) ==
    World(broadcast(w.ob, reg, room_id, ev), Logged(w, reg, hd, room_id, ev, NoName))
BcastExcept(w, reg, hd, room_id, ev, u) ==
    World(broadcast_except(w.ob, reg, hd, room_id, ev, u),
          Logged(w, reg, hd, room_id, ev, u))

---------------------------------------------------------------------------
\* Store operations used by the session layer.

HistoryLimit == 50

\* ids are opaque to the session layer: the random leading character of
\* uuid4 is fixed here, the serial tail keeps ids distinct
SessionHead == 51
\* time between two reads of _now() in the session model, in microseconds
SessionDt == 1000

\* self._messages.get(room_id, [])
RoomMsgs(msgs, room_id) == IF room_id \in DOMAIN msgs THEN msgs[room_id] ELSE <<>>

\* self._messages.setdefault(room_id, []).append(msg)
StoreAppend(msgs, room_id, msg) ==
    [r \in DOMAIN msgs \cup {room_id} |->
        IF r = room_id THEN add_message(RoomMsgs(msgs, room_id), msg) ELSE msgs[r]]

\* MemoryStore.get_participants
get_participants(parts, room_id) == {p \in parts : p[1] = room_id}

list_room_polls_all(ps, room_id) ==
    LET idx == {i \in 1..Len(ps) : ps[i].room_id = room_id}
    IN  {ps[i].poll_id : i \in idx}

\* MemoryStore.list_room_polls(room_id, active_only=True), as poll ids
list_room_polls(ps, room_id) ==
    LET idx == {i \in 1..Len(ps) : ps[i].room_id = room_id /\ ps[i].status = "open"}
    IN  {ps[i].poll_id : i \in idx}

---------------------------------------------------------------------------
\* Store: polls.

\* closed_at of a poll that was never closed (None)
NoTime == 0

\* StoredPollVote
StoredPollVote(voter_id, ts) == [voter_id |-> voter_id, voted_at |-> ts]

\* StoredPoll with its StoredPollOptions, as create_poll builds it
StoredPoll(poll_id, room_id, creator_id, option_ids, allow_multiple, ts) ==
    [poll_id |-> poll_id, room_id |-> room_id, creator_id |-> creator_id,
     options |-> [i \in 1..Len(option_ids) |-> [id |-> option_ids[i], votes |-> <<>>]],
     allow_multiple |-> allow_multiple, status |-> "open",
     created_at |-> ts, closed_at |-> NoTime]

\* MemoryStore.create_poll: the poll joins _polls (and the room's poll list)
create_poll(ps, poll) == Append(ps, poll)

\* self._polls.get(poll_id): the position of the poll, 0 for None
PollIndex(ps, poll_id) ==
    IF \E i \in 1..Len(ps) : ps[i].poll_id = poll_id
    THEN CHOOSE i \in 1..Len(ps) : ps[i].poll_id = poll_id
    ELSE 0

\* next((o for o in poll.options if o.id == option_id), None): position, 0 for None
OptionIndex(poll, option_id) ==
    IF \E k \in 1..Len(poll.options) : poll.options[k].id = option_id
    THEN CHOOSE k \in 1..Len(poll.options) :
            /\ poll.options[k].id = option_id
            /\ \A j \in 1..(k - 1) : poll.options[j].id # option_id
    ELSE 0

\* any(v.voter_id == voter_id for v in option.votes)
HasVoted(option, voter_id) ==
    \E j \in 1..Len(option.votes) : option.votes[j].voter_id = voter_id

\* [v for v in opt.votes if v.voter_id != voter_id]
WithoutVoter(votes, voter_id) ==
    LET RECURSIVE Keep(_)
        Keep(vs) == IF vs = <<>> THEN <<>>
                    ELSE IF Head(vs).voter_id # voter_id
                         THEN <<Head(vs)>> \o Keep(Tail(vs))
                         ELSE Keep(Tail(vs))
    IN  Keep(votes)

add_vote_keeps_old(ps, poll_id, option_id, voter_id, ts) ==
    LET i == PollIndex(ps, poll_id)
        k == IF i = 0 THEN 0 ELSE OptionIndex(ps[i], option_id)
    IN  IF i = 0 \/ k = 0 \/ ps[i].status # "open" \/ HasVoted(ps[i].options[k], voter_id)
        THEN [polls |-> ps, ok |-> FALSE]
        ELSE [polls |-> [ps EXCEPT ![i].options[k].votes =
                                        Append(@, StoredPollVote(voter_id, ts))],
              ok |-> TRUE]

add_vote_twice(ps, poll_id, option_id, voter_id, ts) ==
    LET i == PollIndex(ps, poll_id)
        k == IF i = 0 THEN 0 ELSE OptionIndex(ps[i], option_id)
    IN  IF i = 0 \/ k = 0 \/ ps[i].status # "open"
        THEN [polls |-> ps, ok |-> FALSE]
        ELSE [polls |-> [ps EXCEPT ![i].options[k].votes =
                                        Append(@, StoredPollVote(voter_id, ts))],
              ok |-> TRUE]

add_vote_when_closed(ps, poll_id, option_id, voter_id, ts) ==
    LET i == PollIndex(ps, poll_id)
        k == IF i = 0 THEN 0 ELSE OptionIndex(ps[i], option_id)
    IN  IF i = 0 \/ k = 0 \/ HasVoted(ps[i].options[k], voter_id)
        THEN [polls |-> ps, ok |-> FALSE]
        ELSE [polls |-> [ps EXCEPT ![i].options[k].votes =
                                        Append(@, StoredPollVote(voter_id, ts))],
              ok |-> TRUE]

\* MemoryStore.add_vote at time ts: the polls afterwards, and whether a
\* (poll, option, vote) tuple is returned rather than None
add_vote(ps, poll_id, option_id, voter_id, ts) ==
    LET i == PollIndex(ps, poll_id)
    IN  IF i = 0 \/ ps[i].status # "open"
        THEN [polls |-> ps, ok |-> FALSE]
        ELSE
    LET poll == ps[i]
        k == OptionIndex(poll, option_id)
    IN  IF k = 0
        THEN [polls |-> ps, ok |-> FALSE]
        ELSE IF HasVoted(poll.options[k], voter_id)
        THEN [polls |-> ps, ok |-> FALSE]
        ELSE
    LET cleared == IF ~poll.allow_multiple
                   THEN [o \in 1..Len(poll.options) |->
                            [poll.options[o] EXCEPT !.votes = WithoutVoter(@, voter_id)]]
                   ELSE poll.options
        voted == [cleared EXCEPT ![k].votes = Append(@, StoredPollVote(voter_id, ts))]
    IN  [polls |-> [ps EXCEPT ![i].options = voted], ok |-> TRUE]

\* MemoryStore.close_poll at time ts: the polls afterwards, and whether the
\* poll is returned rather than None
close_poll(ps, poll_id, ts) ==
    LET i == PollIndex(ps, poll_id)
    IN  IF i = 0
        THEN [polls |-> ps, ok |-> FALSE]
        ELSE [polls |-> [ps EXCEPT ![i].status = "closed", ![i].closed_at = ts],
              ok |-> TRUE]

---------------------------------------------------------------------------
\* LLM dispatcher: task bookkeeping.

\* a task created by asyncio.create_task for call_llm / call_llm_for_poll;
\* at is the suspension point at which a cancellation reached the task,
\* mentions is pending_mentions (the LLMs named by mention tool calls), and
\* dispatched records that the call invoked dispatch_llm_mentions
NewTask(h, kind, room_id, llm_id, trigger_msg_id) ==
    [owner |-> h, kind |-> kind, room_id |-> room_id, llm_id |-> llm_id,
     trigger_msg_id |-> trigger_msg_id, pc |-> "created", response_msg_id |-> NoStr,
     content |-> <<>>, opted_out |-> FALSE, must_cancel |-> FALSE,
     outcome |-> "", at |-> "", cb |-> FALSE, mentions |-> <<>>,
     dispatched |-> FALSE]

TaskIds == 1..Len(tasks)

\* task.done()
TaskDone(t) == tasks[t].pc = "done"

\* the tasks list after create_task for each LLM of llms, in list order
Spawned(ts, h, kind, room_id, llms, trigger_msg_id) ==
    ts \o [i \in 1..Len(llms) |-> NewTask(h, kind, room_id, llms[i], trigger_msg_id)]

\* LLMDispatcher._track_task for the tasks just spawned: all join
\* _pending_tasks, and _active_llm_tasks[llm_id] is overwritten
TrackPending(pd, h, first, count) ==
    [pd EXCEPT ![h] = @ \cup (first..(first + count - 1))]
TrackActive(ac, h, first, llms) ==
    [ac EXCEPT ![h] = [l \in DOMAIN @ |->
        IF \E i \in 1..Len(llms) : llms[i] = l
        THEN first - 1 + CHOOSE i \in 1..Len(llms) :
                            llms[i] = l /\ \A j \in (i + 1)..Len(llms) : llms[j] # l
        ELSE @[l]]]

\* lists of LLMs a message can resolve to (match_llms_from_mentions)
MentionLists == {<<>>, <<"claude">>, <<"claude", "gemini">>}

\* content deltas of the provider: a word, and white space only
ChunkTexts == {"hi"}

\* final_content.strip() is non-empty
NonBlank(content) == \E i \in 1..Len(content) : content[i] # " "

ChunksStreamed == LET RECURSIVE Sum(_)
                      Sum(t) == IF t = 0 THEN 0 ELSE Len(tasks[t].content) + Sum(t - 1)
                  IN  Sum(Len(tasks))

---------------------------------------------------------------------------
\* StreamHandler: client frames.

Joined(h) == handler[h].room_id # NoName /\ handler[h].user_id # NoName

Reading(h) == handler[h].pc = "read"

Join_RegistersOnly(h, r, u) ==
    /\ Reading(h)
    /\ nframes' = nframes + 1
    /\ LET hd1 == [handler EXCEPT ![h].room_id = r, ![h].user_id = u]
       IN  /\ handler' = hd1
           /\ IF r \notin DOMAIN rooms
              THEN /\ outbound' = enqueue(outbound, h, EvError("ROOM_NOT_FOUND", 0, 0))
                   /\ UNCHANGED <<participants, registry, bcasts>>
              ELSE LET reg1 == register(registry, r, h)
                       parts1 == participants \cup {<<r, u>>}
                       page == load_history(RoomMsgs(messages, r), HistoryLimit, NoStr).page
                       online == get_online_user_ids(reg1, hd1, r)
                       state == EvRoomState(page, get_participants(parts1, r), online,
                                            list_room_polls(polls, r))
                       w0 == World(outbound, bcasts)
                       w1 == BcastExcept(w0, reg1, hd1, r, EvUserJoined(u, NextSeq(w0)), u)
                   IN  /\ participants' = parts1
                       /\ registry' = reg1
                       /\ outbound' = w1.ob
                       /\ bcasts' = w1.log
    /\ UNCHANGED <<storeVars, histVars, rooms, polls, tasks, pending, active, intr>>

\* _handle_join
Join(h, r, u) ==
    /\ Reading(h)
    /\ nframes' = nframes + 1
    /\ LET hd1 == [handler EXCEPT ![h].room_id = r, ![h].user_id = u]
       IN  /\ handler' = hd1
           /\ IF r \notin DOMAIN rooms
              THEN /\ outbound' = enqueue(outbound, h, EvError("ROOM_NOT_FOUND", 0, 0))
                   /\ UNCHANGED <<participants, registry, bcasts>>
              ELSE LET reg1 == register(registry, r, h)
                       parts1 == participants \cup {<<r, u>>}
                       page == load_history(RoomMsgs(messages, r), HistoryLimit, NoStr).page
                       online == get_online_user_ids(reg1, hd1, r)
                       state == EvRoomState(page, get_participants(parts1, r), online,
                                            list_room_polls(polls, r))
                       w0 == World(enqueue(outbound, h, state), bcasts)
                       w1 == BcastExcept(w0, reg1, hd1, r, EvUserJoined(u, NextSeq(w0)), u)
                   IN  /\ participants' = parts1
                       /\ registry' = reg1
                       /\ outbound' = w1.ob
                       /\ bcasts' = w1.log
    /\ UNCHANGED <<storeVars, histVars, rooms, polls, tasks, pending, active, intr>>

\* _handle_typing
Typing(h) ==
    /\ Reading(h)
    /\ nframes' = nframes + 1
    /\ IF Joined(h)
       THEN LET w0 == World(outbound, bcasts)
                u == handler[h].user_id
                w1 == BcastExcept(w0, registry, handler, handler[h].room_id,
                                  EvUserTyping(u, NextSeq(w0)), u)
            IN  outbound' = w1.ob /\ bcasts' = w1.log
       ELSE UNCHANGED <<outbound, bcasts>>
    /\ UNCHANGED <<storeVars, histVars, rooms, participants, polls, registry, handler,
                   tasks, pending, active, intr>>

\* _handle_message; matched is what match_llms_from_mentions resolves the
\* content and the client's mention hints to
Message(h, matched) ==
    /\ Reading(h)
    /\ Len(tasks) + Len(matched) <= MaxTasks
    /\ nframes' = nframes + 1
    /\ IF Joined(h)
       THEN LET r == handler[h].room_id
                stored == StoredMessage(uuid4(SessionHead, uuidCount), handler[h].user_id,
                                        "HUMAN", "text", NoStr, now(SessionDt), NoStr)
                w0 == World(outbound, bcasts)
                w1 == Bcast(w0, registry, handler, r,
                            EvMessageReceived(stored, NextSeq(w0)))
                llms == IF r \in DOMAIN rooms THEN matched ELSE <<>>
            IN  /\ messages' = StoreAppend(messages, r, stored)
                /\ clock' = now(SessionDt)
                /\ uuidCount' = uuidCount + 1
                /\ outbound' = w1.ob
                /\ bcasts' = w1.log
                /\ tasks' = Spawned(tasks, h, "general", r, llms, stored.message_id)
                /\ pending' = TrackPending(pending, h, Len(tasks) + 1, Len(llms))
                /\ active' = TrackActive(active, h, Len(tasks) + 1, llms)
       ELSE UNCHANGED <<storeVars, outbound, bcasts, tasks, pending, active>>
    /\ UNCHANGED <<histVars, rooms, participants, polls, registry, handler, intr>>

\* the loop over option_ids shared by _handle_cast_vote and
\* _handle_vote_tool_call: add_vote per option, poll_voted to room_id for
\* each vote that was stored.  st is [polls, w, clock].
RECURSIVE VoteEach(_, _, _, _, _, _, _)
VoteEach(st, reg, hd, room_id, poll_id, option_ids, voter_id) ==
    IF option_ids = <<>>
    THEN st
    ELSE LET option_id == Head(option_ids)
             res == add_vote(st.polls, poll_id, option_id, voter_id, st.clock + SessionDt)
             st1 == IF res.ok
                    THEN [polls |-> res.polls,
                          w |-> Bcast(st.w, reg, hd, room_id,
                                      EvPollVoted(poll_id, option_id, voter_id,
                                                  NextSeq(st.w))),
                          clock |-> st.clock + SessionDt]
                    ELSE st
         IN  VoteEach(st1, reg, hd, room_id, poll_id, Tail(option_ids), voter_id)

CreatePollFrame_StoresAnyway(h, nopts, allow_multiple) ==
    /\ Reading(h)
    /\ Joined(h) => Len(tasks) + Len(RoomLLMs) <= MaxTasks
    /\ nframes' = nframes + 1
    /\ IF Joined(h)
       THEN LET r == handler[h].room_id
                poll_id == uuid4(SessionHead, uuidCount)
                option_ids == [i \in 1..nopts |-> uuid4(SessionHead, uuidCount + i)]
                poll == StoredPoll(poll_id, r, handler[h].user_id, option_ids,
                                   allow_multiple, now(SessionDt))
                poll_msg == StoredMessage(uuid4(SessionHead, uuidCount + nopts + 1),
                                          handler[h].user_id, "HUMAN", "question",
                                          NoStr, now(2 * SessionDt), poll_id)
                w0 == World(outbound, bcasts)
                w1 == Bcast(w0, registry, handler, r,
                            EvMessageReceived(poll_msg, NextSeq(w0)))
                w2 == Bcast(w1, registry, handler, r, EvPollCreated(poll_id, NextSeq(w1)))
                llms == IF r \in DOMAIN rooms THEN LLMIdsOf(rooms[r].llms) ELSE <<>>
            IN  /\ polls' = create_poll(polls, poll)
                /\ messages' = StoreAppend(messages, r, poll_msg)
                /\ clock' = now(2 * SessionDt)
                /\ uuidCount' = uuidCount + nopts + 2
                /\ outbound' = w2.ob
                /\ bcasts' = w2.log
                /\ tasks' = Spawned(tasks, h, "poll", r, llms, poll_msg.message_id)
                /\ pending' = TrackPending(pending, h, Len(tasks) + 1, Len(llms))
                /\ active' = TrackActive(active, h, Len(tasks) + 1, llms)
       ELSE UNCHANGED <<storeVars, polls, outbound, bcasts, tasks, pending, active>>
    /\ UNCHANGED <<histVars, rooms, participants, registry, handler, intr>>

\* _handle_create_poll for a frame with nopts options
CreatePollFrame(h, nopts, allow_multiple) ==
    /\ Reading(h)
    /\ (Joined(h) /\ nopts >= 2) => Len(tasks) + Len(RoomLLMs) <= MaxTasks
    /\ nframes' = nframes + 1
    /\ IF ~Joined(h)
       THEN UNCHANGED <<storeVars, polls, outbound, bcasts, tasks, pending, active>>
       ELSE IF nopts < 2
       THEN /\ outbound' = enqueue(outbound, h, EvError("INVALID_POLL", 0, 0))
            /\ UNCHANGED <<storeVars, polls, bcasts, tasks, pending, active>>
       ELSE LET r == handler[h].room_id
                poll_id == uuid4(SessionHead, uuidCount)
                option_ids == [i \in 1..nopts |-> uuid4(SessionHead, uuidCount + i)]
                poll == StoredPoll(poll_id, r, handler[h].user_id, option_ids,
                                   allow_multiple, now(SessionDt))
                poll_msg == StoredMessage(uuid4(SessionHead, uuidCount + nopts + 1),
                                          handler[h].user_id, "HUMAN", "question",
                                          NoStr, now(2 * SessionDt), poll_id)
                w0 == World(outbound, bcasts)
                w1 == Bcast(w0, registry, handler, r,
                            EvMessageReceived(poll_msg, NextSeq(w0)))
                w2 == Bcast(w1, registry, handler, r, EvPollCreated(poll_id, NextSeq(w1)))
                llms == IF r \in DOMAIN rooms THEN LLMIdsOf(rooms[r].llms) ELSE <<>>
            IN  /\ polls' = create_poll(polls, poll)
                /\ messages' = StoreAppend(messages, r, poll_msg)
                /\ clock' = now(2 * SessionDt)
                /\ uuidCount' = uuidCount + nopts + 2
                /\ outbound' = w2.ob
                /\ bcasts' = w2.log
                /\ tasks' = Spawned(tasks, h, "poll", r, llms, poll_msg.message_id)
                /\ pending' = TrackPending(pending, h, Len(tasks) + 1, Len(llms))
                /\ active' = TrackActive(active, h, Len(tasks) + 1, llms)
    /\ UNCHANGED <<histVars, rooms, participants, registry, handler, intr>>

\* _handle_create_poll for a single-choice poll with two options
CreatePoll(h) == CreatePollFrame(h, 2, FALSE)

\* _handle_cast_vote
CastVote(h, poll_id, option_ids) ==
    /\ Reading(h)
    /\ nframes' = nframes + 1
    /\ IF Joined(h)
       THEN LET st == VoteEach([polls |-> polls, w |-> World(outbound, bcasts),
                                clock |-> clock],
                               registry, handler, handler[h].room_id, poll_id,
                               option_ids, handler[h].user_id)
            IN  /\ polls' = st.polls
                /\ clock' = st.clock
                /\ outbound' = st.w.ob
                /\ bcasts' = st.w.log
       ELSE UNCHANGED <<clock, polls, outbound, bcasts>>
    /\ UNCHANGED <<messages, uuidCount, histVars, rooms, participants, registry, handler,
                   tasks, pending, active, intr>>

\* _handle_close_poll
ClosePoll(h, poll_id) ==
    /\ Reading(h)
    /\ nframes' = nframes + 1
    /\ IF Joined(h)
       THEN LET res == close_poll(polls, poll_id, now(SessionDt))
                w0 == World(outbound, bcasts)
                w1 == IF res.ok
                      THEN Bcast(w0, registry, handler, handler[h].room_id,
                                 EvPollClosed(poll_id, handler[h].user_id, NextSeq(w0)))
                      ELSE w0
            IN  /\ polls' = res.polls
                /\ clock' = IF res.ok THEN now(SessionDt) ELSE clock
                /\ outbound' = w1.ob
                /\ bcasts' = w1.log
       ELSE UNCHANGED <<clock, polls, outbound, bcasts>>
    /\ UNCHANGED <<messages, uuidCount, histVars, rooms, participants, registry, handler,
                   tasks, pending, active, intr>>

\* a call for llm_id that runs in room_id: created, not finished, not yet
\* asked to cancel
InFlight(room_id, llm_id) ==
    {t \in TaskIds : /\ tasks[t].room_id = room_id
                     /\ tasks[t].llm_id = llm_id
                     /\ ~TaskDone(t)
                     /\ ~tasks[t].must_cancel}

Interrupt_IgnoresDone(h, llm_id) ==
    /\ Reading(h)
    /\ nframes' = nframes + 1
    /\ IF handler[h].room_id = NoName
       THEN UNCHANGED <<handler, tasks, intr>>
       ELSE LET t == active[h][llm_id]
                found == t # 0
            IN  /\ intr' = intr \cup {[h |-> h, llm_id |-> llm_id,
                                       inflight |-> InFlight(handler[h].room_id, llm_id),
                                       cancelled |-> IF found THEN t ELSE 0]}
                /\ IF found
                   THEN /\ tasks' = [tasks EXCEPT ![t].must_cancel = TRUE]
                        /\ handler' = [handler EXCEPT ![h].pc = "cancel_wait",
                                                      ![h].await = t]
                   ELSE UNCHANGED <<handler, tasks>>
    /\ UNCHANGED <<storeVars, histVars, rooms, participants, polls, registry, outbound,
                   pending, active, bcasts>>

\* _handle_interrupt up to `await task` in cancel_llm_task
Interrupt(h, llm_id) ==
    /\ Reading(h)
    /\ nframes' = nframes + 1
    /\ IF handler[h].room_id = NoName
       THEN UNCHANGED <<handler, tasks, intr>>
       ELSE LET t == active[h][llm_id]
                found == t # 0 /\ ~TaskDone(t)
            IN  /\ intr' = intr \cup {[h |-> h, llm_id |-> llm_id,
                                       inflight |-> InFlight(handler[h].room_id, llm_id),
                                       cancelled |-> IF found THEN t ELSE 0]}
                /\ IF found
                   THEN /\ tasks' = [tasks EXCEPT ![t].must_cancel = TRUE]
                        /\ handler' = [handler EXCEPT ![h].pc = "cancel_wait",
                                                      ![h].await = t]
                   ELSE UNCHANGED <<handler, tasks>>
    /\ UNCHANGED <<storeVars, histVars, rooms, participants, polls, registry, outbound,
                   pending, active, bcasts>>

\* run(): `finally` from unregister on, after cancel_pending_tasks returned
Leave(h, ob, log) ==
    IF Joined(h)
    THEN LET r == handler[h].room_id
             u == handler[h].user_id
             reg1 == unregister(registry, r, h)
             w0 == World(ob, log)
             w1 == IF u \notin get_online_user_ids(reg1, handler, r)
                   THEN Bcast(w0, reg1, handler, r, EvUserLeft(u, NextSeq(w0)))
                   ELSE w0
         IN  /\ registry' = reg1
             /\ outbound' = w1.ob
             /\ bcasts' = w1.log
    ELSE UNCHANGED <<registry, outbound, bcasts>>

\* write_task.cancel(): a writer that is running ends cancelled, one that has
\* ended stays as it ended
WriterCancelled(w) == IF w = "run" THEN "cancelled" ELSE w

Close_CancelsRoom(h) ==
    /\ handler[h].pc = "read"
    /\ tasks' = [t \in TaskIds |->
                    IF ~TaskDone(t)
                    THEN [tasks[t] EXCEPT !.must_cancel = TRUE]
                    ELSE tasks[t]]
    /\ IF pending[h] # {}
       THEN /\ handler' = [handler EXCEPT ![h].pc = "gather",
                                          ![h].writer = WriterCancelled(@)]
            /\ UNCHANGED <<registry, outbound, bcasts>>
       ELSE /\ handler' = [handler EXCEPT ![h].pc = "done",
                                          ![h].writer = WriterCancelled(@)]
            /\ Leave(h, outbound, bcasts)
    /\ UNCHANGED <<storeVars, histVars, rooms, participants, polls, pending, active,
                   nframes, intr>>

\* the client's stream ends: run() enters `finally`, cancel_pending_tasks
\* cancels every pending task and waits for them in gather if there is any
Close(h) ==
    /\ handler[h].pc = "read"
    /\ tasks' = [t \in TaskIds |->
                    IF t \in pending[h] /\ ~TaskDone(t)
                    THEN [tasks[t] EXCEPT !.must_cancel = TRUE]
                    ELSE tasks[t]]
    /\ IF pending[h] # {}
       THEN /\ handler' = [handler EXCEPT ![h].pc = "gather",
                                          ![h].writer = WriterCancelled(@)]
            /\ UNCHANGED <<registry, outbound, bcasts>>
       ELSE /\ handler' = [handler EXCEPT ![h].pc = "done",
                                          ![h].writer = WriterCancelled(@)]
            /\ Leave(h, outbound, bcasts)
    /\ UNCHANGED <<storeVars, histVars, rooms, participants, polls, pending, active,
                   nframes, intr>>

\* gather returned: _pending_tasks.clear(), unregister, _broadcast_user_left
Closed(h) ==
    /\ handler[h].pc = "gather"
    /\ \A t \in TaskIds : tasks[t].owner = h => (TaskDone(t) /\ tasks[t].cb)
    /\ handler' = [handler EXCEPT ![h].pc = "done"]
    /\ pending' = [pending EXCEPT ![h] = {}]
    /\ Leave(h, outbound, bcasts)
    /\ UNCHANGED <<storeVars, histVars, rooms, participants, polls, tasks, active,
                   nframes, intr>>

---------------------------------------------------------------------------
\* StreamHandler: the writer task.  outbound[h] is every event put on the
\* queue so far; the first handler[h].sent of them have been taken off it.

\* the events waiting in the queue
Queued(h) == Len(outbound[h]) - handler[h].sent

\* _write_loop: one event is taken from the queue and written to the stream
Write(h) ==
    /\ handler[h].writer = "run"
    /\ Queued(h) > 0
    /\ handler' = [handler EXCEPT ![h].sent = @ + 1]
    /\ UNCHANGED <<storeVars, histVars, rooms, participants, polls, registry, outbound,
                   tasks, pending, active, nframes, bcasts, intr>>

\* _write_loop: context.write raises; the exception ends the writer task,
\* which nothing awaits
WriteFail(h) ==
    /\ handler[h].writer = "run"
    /\ Queued(h) > 0
    /\ handler' = [handler EXCEPT ![h].sent = @ + 1, ![h].writer = "failed"]
    /\ UNCHANGED <<storeVars, histVars, rooms, participants, polls, registry, outbound,
                   tasks, pending, active, nframes, bcasts, intr>>

---------------------------------------------------------------------------
\* LLM dispatcher: the steps of call_llm and call_llm_for_poll.

Runnable(t, pc) == t \in TaskIds /\ tasks[t].pc = pc /\ ~tasks[t].must_cancel

\* first step: _build_context, llm_thinking, a fresh response_msg_id, the
\* provider stream is opened; the task then waits for the first delta
TaskStart(t) ==
    /\ Runnable(t, "created")
    /\ LET c == tasks[t]
       IN  IF c.room_id \notin DOMAIN rooms
           THEN /\ tasks' = [tasks EXCEPT ![t].pc = "done", ![t].outcome = "returned"]
                /\ UNCHANGED <<uuidCount, outbound, bcasts>>
           ELSE LET w0 == World(outbound, bcasts)
                    w1 == Bcast(w0, registry, handler, c.room_id,
                                EvThinking(c.llm_id, c.trigger_msg_id, t, NextSeq(w0)))
                IN  /\ tasks' = [tasks EXCEPT ![t].pc = "stream",
                                              ![t].response_msg_id =
                                                    uuid4(SessionHead, uuidCount)]
                    /\ uuidCount' = uuidCount + 1
                    /\ outbound' = w1.ob
                    /\ bcasts' = w1.log
    /\ UNCHANGED <<messages, clock, histVars, rooms, participants, polls, registry,
                   handler, pending, active, nframes, intr>>

\* a delta with content: appended to full_content and broadcast as llm_chunk
TaskChunk(t, text) ==
    /\ Runnable(t, "stream")
    /\ ChunksStreamed < MaxChunks
    /\ LET c == tasks[t]
           w0 == World(outbound, bcasts)
           w1 == Bcast(w0, registry, handler, c.room_id,
                       EvChunk(c.response_msg_id, c.llm_id, text, c.trigger_msg_id, t,
                               Len(c.content) + 1, NextSeq(w0)))
       IN  /\ tasks' = [tasks EXCEPT ![t].content = Append(@, text)]
           /\ outbound' = w1.ob
           /\ bcasts' = w1.log
    /\ UNCHANGED <<storeVars, histVars, rooms, participants, polls, registry, handler,
                   pending, active, nframes, intr>>

\* poll_voted broadcasts so far
VotesCast == Cardinality({i \in 1..Len(bcasts) : bcasts[i].ev.type = "poll_voted"})

\* a delta that carries a vote_on_poll tool call and no content:
\* _handle_vote_tool_call votes as the LLM for each option id
TaskVote(t, poll_id, option_ids) ==
    /\ Runnable(t, "stream")
    /\ VotesCast < MaxVotes
    /\ LET c == tasks[t]
           st == VoteEach([polls |-> polls, w |-> World(outbound, bcasts),
                           clock |-> clock],
                          registry, handler, c.room_id, poll_id, option_ids, c.llm_id)
       IN  /\ polls' = st.polls
           /\ clock' = st.clock
           /\ outbound' = st.w.ob
           /\ bcasts' = st.w.log
    /\ UNCHANGED <<messages, uuidCount, histVars, rooms, participants, registry, handler,
                   tasks, pending, active, nframes, intr>>

\* call_llm: a delta that carries a mention tool call and no content: the
\* participant named (an LLM of the room, by its display name) joins
\* pending_mentions
TaskMention(t, llm) ==
    /\ Runnable(t, "stream")
    /\ tasks[t].kind = "general"
    /\ Len(tasks[t].mentions) < MaxMentions
    /\ tasks' = [tasks EXCEPT ![t].mentions = Append(@, llm)]
    /\ UNCHANGED <<storeVars, histVars, rooms, participants, polls, registry, handler,
                   outbound, pending, active, nframes, bcasts, intr>>

\* call_llm: a delta with opted_out (or an opt_out tool call) leaves the loop
TaskOptOut(t) ==
    /\ Runnable(t, "stream")
    /\ tasks[t].kind = "general"
    /\ tasks' = [tasks EXCEPT ![t].opted_out = TRUE, ![t].pc = "close"]
    /\ UNCHANGED <<storeVars, histVars, rooms, participants, polls, registry, handler,
                   outbound, pending, active, nframes, bcasts, intr>>

\* the provider stream ends; the task waits in channel.close()
TaskStreamEnd(t) ==
    /\ Runnable(t, "stream")
    /\ tasks' = [tasks EXCEPT ![t].pc = "close"]
    /\ UNCHANGED <<storeVars, histVars, rooms, participants, polls, registry, handler,
                   outbound, pending, active, nframes, bcasts, intr>>

TaskError_StoresPartial(t) ==
    /\ Runnable(t, "stream")
    /\ LET c == tasks[t]
           w0 == World(outbound, bcasts)
           w1 == IF c.kind = "general"
                 THEN Bcast(w0, registry, handler, c.room_id,
                            EvError("LLM_ERROR", t, NextSeq(w0)))
                 ELSE w0
       IN  /\ tasks' = [tasks EXCEPT ![t].pc = "done", ![t].outcome = "error"]
           /\ IF NonBlank(c.content)
              THEN /\ messages' = StoreAppend(messages, c.room_id, StoredMessage(c.response_msg_id, c.llm_id, "LLM", c.content,
                                      c.trigger_msg_id, now(SessionDt), NoStr))
                   /\ clock' = now(SessionDt)
              ELSE UNCHANGED <<messages, clock>>
           /\ outbound' = w1.ob
           /\ bcasts' = w1.log
    /\ UNCHANGED <<uuidCount, histVars, rooms, participants, polls, registry, handler,
                   pending, active, nframes, intr>>

\* the provider stream raises grpc.RpcError: call_llm broadcasts
\* error{LLM_ERROR}, call_llm_for_poll only logs; both return
TaskError(t) ==
    /\ Runnable(t, "stream")
    /\ LET c == tasks[t]
           w0 == World(outbound, bcasts)
           w1 == IF c.kind = "general"
                 THEN Bcast(w0, registry, handler, c.room_id,
                            EvError("LLM_ERROR", t, NextSeq(w0)))
                 ELSE w0
       IN  /\ tasks' = [tasks EXCEPT ![t].pc = "done", ![t].outcome = "error"]
           /\ outbound' = w1.ob
           /\ bcasts' = w1.log
    /\ UNCHANGED <<storeVars, histVars, rooms, participants, polls, registry, handler,
                   pending, active, nframes, intr>>

\* the message a call stores: the accumulated content under the id of its
\* chunks, in reply to the trigger
Reply(c) ==
    StoredMessage(c.response_msg_id, c.llm_id, "LLM", c.content, c.trigger_msg_id,
                  now(SessionDt), NoStr)

TaskFinish_FreshId(t) ==
    /\ Runnable(t, "close")
    /\ LET c == tasks[t]
           store == ~c.opted_out /\ NonBlank(c.content)
           w0 == World(outbound, bcasts)
           w1 == Bcast(w0, registry, handler, c.room_id,
                       EvDone(c.response_msg_id, c.llm_id, t, NextSeq(w0)))
       IN  /\ tasks' = [tasks EXCEPT ![t].pc = "done", ![t].outcome = "returned"]
           /\ IF store
              THEN /\ messages' = StoreAppend(messages, c.room_id,
                        StoredMessage(uuid4(SessionHead, uuidCount), c.llm_id, "LLM",
                                      c.content, c.trigger_msg_id, now(SessionDt), NoStr))
                   /\ clock' = now(SessionDt)
                   /\ uuidCount' = uuidCount + 1
              ELSE UNCHANGED <<messages, clock, uuidCount>>
           /\ outbound' = w1.ob
           /\ bcasts' = w1.log
    /\ UNCHANGED <<histVars, rooms, participants, polls, registry, handler,
                   pending, active, nframes, intr>>

\* the calls dispatch_llm_mentions creates for the mentions of a reply: one
\* for each mention, in order, that names an LLM other than the source
Chained(mentions, source_llm_id) ==
    SelectSeq(mentions, LAMBDA l : l # source_llm_id)

TaskFinish_StoresOptOut(t) ==
    /\ Runnable(t, "close")
    /\ LET c == tasks[t]
           store == NonBlank(c.content)
           dispatch == store /\ c.kind = "general" /\ c.mentions # <<>>
           chained == IF dispatch THEN Chained(c.mentions, c.llm_id) ELSE <<>>
           w0 == World(outbound, bcasts)
           w1 == Bcast(w0, registry, handler, c.room_id,
                       EvDone(c.response_msg_id, c.llm_id, t, NextSeq(w0)))
       IN  /\ Len(tasks) + Len(chained) <= MaxTasks
           /\ tasks' = Spawned([tasks EXCEPT ![t].pc = "done", ![t].outcome = "returned",
                                             ![t].dispatched = dispatch],
                               c.owner, "general", c.room_id, chained, c.response_msg_id)
           /\ pending' = TrackPending(pending, c.owner, Len(tasks) + 1, Len(chained))
           /\ active' = TrackActive(active, c.owner, Len(tasks) + 1, chained)
           /\ IF store
              THEN /\ messages' = StoreAppend(messages, c.room_id, Reply(c))
                   /\ clock' = now(SessionDt)
              ELSE UNCHANGED <<messages, clock>>
           /\ outbound' = w1.ob
           /\ bcasts' = w1.log
    /\ UNCHANGED <<uuidCount, histVars, rooms, participants, polls, registry, handler,
                   nframes, intr>>

\* channel.close() returned; the rest of the call runs without suspending:
\* on opt-out llm_done only; otherwise the stripped content is stored when it
\* is not blank, then llm_done, and call_llm hands the pending mentions, if
\* any, to dispatch_llm_mentions; when the content is blank llm_done is all.
\* (The content drawn here holds no @mention; TaskFinishChain is the step for
\* content that does.)  The code bounds the number of calls nowhere;
\* MaxCalls is the bound of the model.
TaskFinishWithin(t, MaxCalls) ==
    /\ Runnable(t, "close")
    /\ LET c == tasks[t]
           store == ~c.opted_out /\ NonBlank(c.content)
           dispatch == store /\ c.kind = "general" /\ c.mentions # <<>>
           chained == IF dispatch THEN Chained(c.mentions, c.llm_id) ELSE <<>>
           w0 == World(outbound, bcasts)
           w1 == Bcast(w0, registry, handler, c.room_id,
                       EvDone(c.response_msg_id, c.llm_id, t, NextSeq(w0)))
       IN  /\ Len(tasks) + Len(chained) <= MaxCalls
           /\ tasks' = Spawned([tasks EXCEPT ![t].pc = "done", ![t].outcome = "returned",
                                             ![t].dispatched = dispatch],
                               c.owner, "general", c.room_id, chained, c.response_msg_id)
           /\ pending' = TrackPending(pending, c.owner, Len(tasks) + 1, Len(chained))
           /\ active' = TrackActive(active, c.owner, Len(tasks) + 1, chained)
           /\ IF store
              THEN /\ messages' = StoreAppend(messages, c.room_id, Reply(c))
                   /\ clock' = now(SessionDt)
              ELSE UNCHANGED <<messages, clock>>
           /\ outbound' = w1.ob
           /\ bcasts' = w1.log
    /\ UNCHANGED <<uuidCount, histVars, rooms, participants, polls, registry, handler,
                   nframes, intr>>

TaskFinish(t) == TaskFinishWithin(t, MaxTasks)

\* the same step of call_llm when the stored content mentions another LLM of
\* the room: after llm_done, the text mention joins the pending mentions
\* unless it is among them, and dispatch_llm_mentions creates a call of each
\* mentioned LLM, triggered by the stored message and tracked by the same
\* dispatcher
TaskFinishChain(t, llm) ==
    /\ Runnable(t, "close")
    /\ LET c == tasks[t]
           merged == IF \E i \in 1..Len(c.mentions) : c.mentions[i] = llm
                     THEN c.mentions ELSE Append(c.mentions, llm)
           chained == Chained(merged, c.llm_id)
           w0 == World(outbound, bcasts)
           w1 == Bcast(w0, registry, handler, c.room_id,
                       EvDone(c.response_msg_id, c.llm_id, t, NextSeq(w0)))
       IN  /\ c.kind = "general"
           /\ ~c.opted_out /\ NonBlank(c.content)
           /\ llm # c.llm_id
           /\ Len(tasks) + Len(chained) <= MaxTasks
           /\ messages' = StoreAppend(messages, c.room_id, Reply(c))
           /\ clock' = now(SessionDt)
           /\ outbound' = w1.ob
           /\ bcasts' = w1.log
           /\ tasks' = Spawned([tasks EXCEPT ![t].pc = "done", ![t].outcome = "returned",
                                             ![t].dispatched = TRUE],
                               c.owner, "general", c.room_id, chained, c.response_msg_id)
           /\ pending' = TrackPending(pending, c.owner, Len(tasks) + 1, Len(chained))
           /\ active' = TrackActive(active, c.owner, Len(tasks) + 1, chained)
    /\ UNCHANGED <<uuidCount, histVars, rooms, participants, polls, registry, handler,
                   nframes, intr>>

TaskCancelled_StoresPartial(t) ==
    /\ t \in TaskIds
    /\ tasks[t].must_cancel
    /\ ~TaskDone(t)
    /\ tasks' = [tasks EXCEPT ![t].pc = "done", ![t].outcome = "cancelled",
                              ![t].at = tasks[t].pc]
    /\ IF tasks[t].content # <<>>
       THEN /\ messages' = StoreAppend(messages, tasks[t].room_id, Reply(tasks[t]))
            /\ clock' = now(SessionDt)
       ELSE UNCHANGED <<messages, clock>>
    /\ UNCHANGED <<uuidCount, histVars, rooms, participants, polls, registry, handler,
                   outbound, pending, active, nframes, bcasts, intr>>

\* a task asked to cancel gets CancelledError at its suspension point (before
\* its first step, in the stream read or in channel.close()); both calls
\* re-raise it, so the task ends cancelled
TaskCancelled(t) ==
    /\ t \in TaskIds
    /\ tasks[t].must_cancel
    /\ ~TaskDone(t)
    /\ tasks' = [tasks EXCEPT ![t].pc = "done", ![t].outcome = "cancelled",
                              ![t].at = tasks[t].pc]
    /\ UNCHANGED <<storeVars, histVars, rooms, participants, polls, registry, handler,
                   outbound, pending, active, nframes, bcasts, intr>>

\* the handler that waits for task t in cancel_llm_task, if any
Canceller(t) == {h \in Handlers : handler[h].pc = "cancel_wait" /\ handler[h].await = t}

TaskCallbacks_RemovesAny(t) ==
    /\ t \in TaskIds
    /\ TaskDone(t)
    /\ ~tasks[t].cb
    /\ LET c == tasks[t]
           o == c.owner
       IN  /\ tasks' = [tasks EXCEPT ![t].cb = TRUE]
           /\ pending' = [pending EXCEPT ![o] = @ \ {t}]
           /\ active' = [active EXCEPT ![o][c.llm_id] = 0]
           /\ IF Canceller(t) # {}
              THEN LET h == CHOOSE x \in Canceller(t) : TRUE
                       w0 == World(outbound, bcasts)
                       w1 == Bcast(w0, registry, handler, handler[h].room_id,
                                   EvDone(NoStr, c.llm_id, t, NextSeq(w0)))
                   IN  /\ handler' = [handler EXCEPT ![h].pc = "read", ![h].await = 0]
                       /\ outbound' = w1.ob
                       /\ bcasts' = w1.log
              ELSE UNCHANGED <<handler, outbound, bcasts>>
    /\ UNCHANGED <<storeVars, histVars, rooms, participants, polls, registry,
                   nframes, intr>>

TaskCallbacks_KeepsActive(t) ==
    /\ t \in TaskIds
    /\ TaskDone(t)
    /\ ~tasks[t].cb
    /\ LET c == tasks[t]
           o == c.owner
       IN  /\ tasks' = [tasks EXCEPT ![t].cb = TRUE]
           /\ pending' = [pending EXCEPT ![o] = @ \ {t}]
           /\ active' = [active EXCEPT ![o][c.llm_id] = @]
           /\ IF Canceller(t) # {}
              THEN LET h == CHOOSE x \in Canceller(t) : TRUE
                       w0 == World(outbound, bcasts)
                       w1 == Bcast(w0, registry, handler, handler[h].room_id,
                                   EvDone(NoStr, c.llm_id, t, NextSeq(w0)))
                   IN  /\ handler' = [handler EXCEPT ![h].pc = "read", ![h].await = 0]
                       /\ outbound' = w1.ob
                       /\ bcasts' = w1.log
              ELSE UNCHANGED <<handler, outbound, bcasts>>
    /\ UNCHANGED <<storeVars, histVars, rooms, participants, polls, registry,
                   nframes, intr>>

\* the done callbacks of a finished task, in registration order:
\* _pending_tasks.discard, _remove_llm_task, then the wake-up of the handler
\* awaiting the task, which goes on in cancel_llm_task: llm_done{llm_id} is
\* broadcast to the canceller's room and the handler reads its next frame
TaskCallbacks(t) ==
    /\ t \in TaskIds
    /\ TaskDone(t)
    /\ ~tasks[t].cb
    /\ LET c == tasks[t]
           o == c.owner
       IN  /\ tasks' = [tasks EXCEPT ![t].cb = TRUE]
           /\ pending' = [pending EXCEPT ![o] = @ \ {t}]
           /\ active' = [active EXCEPT ![o][c.llm_id] = IF @ = t THEN 0 ELSE @]
           /\ IF Canceller(t) # {}
              THEN LET h == CHOOSE x \in Canceller(t) : TRUE
                       w0 == World(outbound, bcasts)
                       w1 == Bcast(w0, registry, handler, handler[h].room_id,
                                   EvDone(NoStr, c.llm_id, t, NextSeq(w0)))
                   IN  /\ handler' = [handler EXCEPT ![h].pc = "read", ![h].await = 0]
                       /\ outbound' = w1.ob
                       /\ bcasts' = w1.log
              ELSE UNCHANGED <<handler, outbound, bcasts>>
    /\ UNCHANGED <<storeVars, histVars, rooms, participants, polls, registry,
                   nframes, intr>>

---------------------------------------------------------------------------
\* Mention matching.  Names and tokens are strings of character codes.

\* str.lower() on the characters used here
LowerCh(c) == IF c >= 65 /\ c <= 90 THEN c + 32 ELSE c
Lower(str) == [i \in 1..Len(str) |-> LowerCh(str[i])]

\* str.lstrip / str.rstrip with the given set of characters
RECURSIVE LStrip(_, _)
LStrip(str, chars) ==
    IF str # <<>> /\ Head(str) \in chars THEN LStrip(Tail(str), chars) ELSE str
RECURSIVE RStrip(_, _)
RStrip(str, chars) ==
    IF str # <<>> /\ str[Len(str)] \in chars
    THEN RStrip(SubSeq(str, 1, Len(str) - 1), chars)
    ELSE str

ChSpace == 32
ChAt == 64
ChUnderscore == 95
\* the characters of ".,!?;:"
TrailingPunct == {46, 44, 33, 63, 59, 58}

\* normalize_mention: token.strip().lstrip("@").rstrip(".,!?;:").lower()
normalize_mention(token) ==
    Lower(RStrip(LStrip(RStrip(LStrip(token, {ChSpace}), {ChSpace}), {ChAt}),
                 TrailingPunct))

\* str.replace(" ", "_")
Underscored(str) == [i \in 1..Len(str) |-> IF str[i] = ChSpace THEN ChUnderscore ELSE str[i]]

\* the strings "all" and "everyone"
StrAll == <<97, 108, 108>>
StrEveryone == <<101, 118, 101, 114, 121, 111, 110, 101>>

\* the last element of a sequence that satisfies Test, or None
NoLLM == [id |-> <<>>, display_name |-> <<>>]
LastWith(llms, Test(_)) ==
    IF \E i \in 1..Len(llms) : Test(llms[i])
    THEN llms[CHOOSE i \in 1..Len(llms) :
                 Test(llms[i]) /\ \A j \in (i + 1)..Len(llms) : ~Test(llms[j])]
    ELSE NoLLM

\* llm_lookup.get(key) in match_llms_from_mentions: three dicts merged with |,
\* a later dict and a later LLM replacing an earlier entry of the same key
LookupMention(llms, key) ==
    LET ByUnderscore(l) == Underscored(Lower(l.display_name)) = key
        ByName(l) == Lower(l.display_name) = key
        ById(l) == Lower(l.id) = key
    IN  IF LastWith(llms, ByUnderscore) # NoLLM THEN LastWith(llms, ByUnderscore)
        ELSE IF LastWith(llms, ByName) # NoLLM THEN LastWith(llms, ByName)
        ELSE LastWith(llms, ById)

\* the set a list is turned into
Elements(seq) == {seq[i] : i \in 1..Len(seq)}

\* the orders in which iterating a set may yield its elements
Orders(S) == {o \in [1..Cardinality(S) -> S] : \A i, j \in DOMAIN o : o[i] = o[j] => i = j}

\* the set of normalized tokens that match_llms_from_mentions iterates over
NormalizedMentions(client_mentions, text_mentions) ==
    {normalize_mention(m) : m \in Elements(client_mentions) \cup Elements(text_mentions)}
        \ {<<>>}

\* _MENTION_ALL_RE.search(content), on the tokens _MENTION_RE finds in the
\* content: "@all" or "@everyone" in any case, followed by no word character
\* (within a token that can only be its end or a hyphen)
MentionsAllInText(text_mentions) ==
    \E i \in 1..Len(text_mentions) :
        \E word \in {StrAll, StrEveryone} :
            LET tok == Lower(text_mentions[i])
            IN  /\ Len(tok) >= Len(word)
                /\ SubSeq(tok, 1, Len(word)) = word
                /\ Len(tok) > Len(word) => tok[Len(word) + 1] = 45

\* the loop over the normalized tokens, taken in the given order
RECURSIVE MatchInOrder(_, _, _)
MatchInOrder(llms, order, matched) ==
    IF order = <<>>
    THEN matched
    ELSE LET llm == LookupMention(llms, Lower(Head(order)))
         IN  MatchInOrder(llms, Tail(order),
                          IF llm # NoLLM /\ llm \notin Elements(matched)
                          THEN Append(matched, llm)
                          ELSE matched)

\* match_llms_from_mentions, where text_mentions is _MENTION_RE.findall(content)
\* and order is the order in which the set of normalized tokens is iterated
match_llms_from_mentions(text_mentions, client_mentions, llms, order) ==
    LET normalized == NormalizedMentions(client_mentions, text_mentions)
        has_mention_all == \/ MentionsAllInText(text_mentions)
                           \/ \E m \in normalized : m \in {StrAll, StrEveryone}
    IN  IF has_mention_all THEN llms ELSE MatchInOrder(llms, order, <<>>)

match_llm_from_name_any(name, llms, exclude_llm_id) ==
    LET normalized == Lower(RStrip(LStrip(name, {ChSpace}), {ChSpace}))
        ByUnderscore(l) == Underscored(Lower(l.display_name)) = normalized
        ByName(l) == Lower(l.display_name) = normalized
    IN  IF LastWith(llms, ByUnderscore) # NoLLM
        THEN LastWith(llms, ByUnderscore)
        ELSE LastWith(llms, ByName)

\* match_llm_from_name; exclude_llm_id is always given by its one caller
match_llm_from_name(name, llms, exclude_llm_id) ==
    LET normalized == Lower(RStrip(LStrip(name, {ChSpace}), {ChSpace}))
        ByUnderscore(l) == Underscored(Lower(l.display_name)) = normalized
        ByName(l) == Lower(l.display_name) = normalized
        llm == IF LastWith(llms, ByUnderscore) # NoLLM
               THEN LastWith(llms, ByUnderscore)
               ELSE LastWith(llms, ByName)
    IN  IF llm # NoLLM /\ llm.id # exclude_llm_id THEN llm ELSE NoLLM

\* dispatch_llm_mentions: the LLMs for which a call is created, in order
RECURSIVE dispatch_llm_mentions(_, _, _)
dispatch_llm_mentions(llms, mentions, source_llm_id) ==
    IF mentions = <<>>
    THEN <<>>
    ELSE LET llm == match_llm_from_name(Head(mentions), llms, source_llm_id)
         IN  (IF llm # NoLLM THEN <<llm>> ELSE <<>>)
                \o dispatch_llm_mentions(llms, Tail(mentions), source_llm_id)

---------------------------------------------------------------------------
\* Store and service: rooms and their LLM configurations.

\* room ids of the rooms created while the service runs (uuid4().hex[:12]:
\* an id no other room has), in the order they are handed out
FreshRoomIds == <<"r3", "r4">>
NewRoomId(rs) == FreshRoomIds[Cardinality(DOMAIN rs \ Rooms) + 1]

\* MemoryStore.create_room: the list of LLM configurations is stored as given
create_room(rs, room_id, created_by, llms, visibility, ts, requested) ==
    [x \in DOMAIN rs \cup {room_id} |->
        IF x = room_id
        THEN StoredRoom(room_id, created_by, llms, visibility, ts, requested)
        ELSE rs[x]]

\* MemoryStore.get_room (None: a room without id)
NoRoom == [room_id |-> NoName]
get_room(rs, room_id) == IF room_id \in DOMAIN rs THEN rs[room_id] ELSE NoRoom

\* any(l.id == llm_id for l in llms)
HasLLM(llms, llm_id) == \E i \in 1..Len(llms) : llms[i].id = llm_id

add_llm_any(rs, room_id, llm) ==
    IF room_id \notin DOMAIN rs
    THEN [rooms |-> rs, ok |-> FALSE]
    ELSE [rooms |-> [rs EXCEPT ![room_id].llms = Append(@, llm)], ok |-> TRUE]

\* MemoryStore.add_llm: the new rooms and the value returned
add_llm(rs, room_id, llm) ==
    IF room_id \notin DOMAIN rs
    THEN [rooms |-> rs, ok |-> FALSE]
    ELSE IF HasLLM(rs[room_id].llms, llm.id)
         THEN [rooms |-> rs, ok |-> FALSE]
         ELSE [rooms |-> [rs EXCEPT ![room_id].llms = Append(@, llm)], ok |-> TRUE]

\* None for an attribute and for an LLM configuration
NoModel == ""
NoLLMConfig == LLMConfig(NoName, NoModel)

\* MemoryStore.update_llm: the first configuration with the id gets the
\* attributes that are given; the new rooms and the configuration returned
update_llm(rs, room_id, llm_id, model) ==
    IF room_id \notin DOMAIN rs \/ ~HasLLM(get_room(rs, room_id).llms, llm_id)
    THEN [rooms |-> rs, llm |-> NoLLMConfig]
    ELSE LET llms == rs[room_id].llms
             i == CHOOSE k \in 1..Len(llms) :
                    llms[k].id = llm_id /\ \A j \in 1..(k - 1) : llms[j].id # llm_id
             new == IF model # NoModel THEN [llms[i] EXCEPT !.model = model] ELSE llms[i]
         IN  [rooms |-> [rs EXCEPT ![room_id].llms[i] = new], llm |-> new]

\* MemoryStore.remove_llm: every configuration with the id goes
remove_llm(rs, room_id, llm_id) ==
    IF room_id \notin DOMAIN rs
    THEN [rooms |-> rs, ok |-> FALSE]
    ELSE LET kept == SelectSeq(rs[room_id].llms, LAMBDA l : l.id # llm_id)
         IN  [rooms |-> [rs EXCEPT ![room_id].llms = kept],
              ok |-> Len(kept) < Len(rs[room_id].llms)]

\* user_id = None of list_rooms
NoneUser == "None"
\* self._user_rooms.get(user_id, set()): the rooms add_participant recorded
UserRooms(parts, user_id) == {p[1] : p \in {q \in parts : q[2] = user_id}}

\* the orders rooms.sort(key=created_at, reverse=True) can leave a set of
\* rooms in
NewestFirst(rs, S) ==
    {o \in Orders(S) : \A i, j \in 1..Len(o) :
                            i < j => rs[o[i]].created_at >= rs[o[j]].created_at}

\* rooms[start : start + limit] of Python, for start >= 0
Slice(seq, start, limit) ==
    LET n == Len(seq)
        stop == IF start + limit < 0 THEN Max(0, n + start + limit)
                ELSE IF start + limit > n THEN n ELSE start + limit
    IN  IF stop <= start THEN <<>> ELSE SubSeq(seq, start + 1, stop)

\* the rooms list_rooms sorts: the caller's rooms (every room when no user_id
\* is given) without the private rooms of other creators
Listable(rs, parts, user_id) ==
    LET rooms0 == IF user_id \notin {NoneUser, NoName}
                  THEN UserRooms(parts, user_id) \cap DOMAIN rs
                  ELSE DOMAIN rs
    IN  {r \in rooms0 : rs[r].visibility # "private" \/ rs[r].created_by = user_id}

\* MemoryStore.list_rooms; order is the sorted list of the rooms of
\* Listable: the page (room ids) and the next cursor
list_rooms(rs, parts, user_id, limit, cursor, order) ==
    LET start == IF cursor # NoName /\ \E i \in 1..Len(order) : order[i] = cursor
                 THEN CHOOSE i \in 1..Len(order) : order[i] = cursor
                 ELSE 0
        page == Slice(order, start, limit)
    IN  [page |-> page,
         next_cursor |-> IF Len(page) = limit THEN page[Len(page)] ELSE NoName]

EvLLMAdded(llm, k) == [type |-> "llm_added", seq |-> k, llm_id |-> llm.id]
EvLLMUpdated(llm, k) ==
    [type |-> "llm_updated", seq |-> k, llm_id |-> llm.id, model |-> llm.model]
EvLLMRemoved(llm_id, k) == [type |-> "llm_removed", seq |-> k, llm_id |-> llm_id]

\* RoomService.CreateRoom: the request's visibility is not handed to
\* create_room, whose default is public
CreateRoom(created_by, llms, visibility) ==
    /\ Cardinality(DOMAIN rooms \ Rooms) < Len(FreshRoomIds)
    /\ LET room_id == NewRoomId(rooms)
       IN  /\ rooms' = create_room(rooms, room_id, created_by, llms, "public",
                                   now(SessionDt), visibility)
           /\ messages' = [x \in DOMAIN messages \cup {room_id} |->
                                IF x = room_id THEN <<>> ELSE messages[x]]
    /\ clock' = now(SessionDt)
    /\ UNCHANGED <<uuidCount, histVars, participants, polls, registry, handler,
                   outbound, tasks, pending, active, nframes, bcasts, intr>>

\* RoomService.ListRooms: a limit of 0 is the default page size
DefaultPageSize == 20
ListRooms(user_id, limit, cursor) ==
    /\ \E order \in NewestFirst(rooms, Listable(rooms, participants, user_id)) :
          LET res == list_rooms(rooms, participants, user_id,
                                IF limit = 0 THEN DefaultPageSize ELSE limit,
                                cursor, order)
          IN  query' = [kind |-> "list", user_id |-> user_id, limit |-> limit,
                        cursor |-> cursor, page |-> res.page,
                        next_cursor |-> res.next_cursor]
    /\ UNCHANGED <<storeVars, hist, walk, sessVars>>

\* a caller pages through ListRooms: the first call has no cursor
ListWalkStart(user_id, limit) ==
    /\ query' = [kind |-> "walk", user_id |-> user_id, limit |-> limit,
                 cursor |-> NoName, pages |-> <<>>, done |-> FALSE]
    /\ UNCHANGED <<storeVars, hist, walk, sessVars>>

\* the next ListRooms call of the walk, with the cursor the last call
\* returned; the walk ends when no next_cursor is returned
ListWalkStep ==
    /\ query.kind = "walk" /\ ~query.done
    /\ \E order \in NewestFirst(rooms, Listable(rooms, participants, query.user_id)) :
          LET res == list_rooms(rooms, participants, query.user_id,
                                IF query.limit = 0 THEN DefaultPageSize ELSE query.limit,
                                query.cursor, order)
          IN  query' = [query EXCEPT !.pages = Append(@, res),
                                     !.cursor = res.next_cursor,
                                     !.done = (res.next_cursor = NoName)]
    /\ UNCHANGED <<storeVars, hist, walk, sessVars>>

\* RoomService.GetRoom
GetRoom(room_id) ==
    /\ query' = [kind |-> "get", room_id |-> room_id,
                 room |-> get_room(rooms, room_id)]
    /\ UNCHANGED <<storeVars, hist, walk, sessVars>>

\* _handle_add_llm
AddLLM(h, llm) ==
    /\ Reading(h)
    /\ nframes' = nframes + 1
    /\ IF handler[h].room_id = NoName
       THEN UNCHANGED <<rooms, outbound, bcasts>>
       ELSE LET r == handler[h].room_id
                res == add_llm(rooms, r, llm)
                w0 == World(outbound, bcasts)
                w1 == IF res.ok
                      THEN Bcast(w0, registry, handler, r, EvLLMAdded(llm, NextSeq(w0)))
                      ELSE w0
            IN  rooms' = res.rooms /\ outbound' = w1.ob /\ bcasts' = w1.log
    /\ UNCHANGED <<storeVars, histVars, participants, polls, registry, handler,
                   tasks, pending, active, intr>>

\* _handle_update_llm
UpdateLLM(h, llm_id, model) ==
    /\ Reading(h)
    /\ nframes' = nframes + 1
    /\ IF handler[h].room_id = NoName
       THEN UNCHANGED <<rooms, outbound, bcasts>>
       ELSE LET r == handler[h].room_id
                res == update_llm(rooms, r, llm_id, model)
                w0 == World(outbound, bcasts)
                w1 == IF res.llm # NoLLMConfig
                      THEN Bcast(w0, registry, handler, r,
                                 EvLLMUpdated(res.llm, NextSeq(w0)))
                      ELSE w0
            IN  rooms' = res.rooms /\ outbound' = w1.ob /\ bcasts' = w1.log
    /\ UNCHANGED <<storeVars, histVars, participants, polls, registry, handler,
                   tasks, pending, active, intr>>

\* _handle_remove_llm
RemoveLLM(h, llm_id) ==
    /\ Reading(h)
    /\ nframes' = nframes + 1
    /\ IF handler[h].room_id = NoName
       THEN UNCHANGED <<rooms, outbound, bcasts>>
       ELSE LET r == handler[h].room_id
                res == remove_llm(rooms, r, llm_id)
                w0 == World(outbound, bcasts)
                w1 == IF res.ok
                      THEN Bcast(w0, registry, handler, r,
                                 EvLLMRemoved(llm_id, NextSeq(w0)))
                      ELSE w0
            IN  rooms' = res.rooms /\ outbound' = w1.ob /\ bcasts' = w1.log
    /\ UNCHANGED <<storeVars, histVars, participants, polls, registry, handler,
                   tasks, pending, active, intr>>

---------------------------------------------------------------------------
\* The room service: client streams and LLM tasks interleave on one loop.

\* the user of each stream where the streams are of different users
UserOf(h) == IF h = "h1" THEN "u1" ELSE "u2"

\* the steps of the LLM tasks
TaskStep ==
    \/ \E t \in 1..MaxTasks : TaskStart(t)
    \/ \E t \in 1..MaxTasks, text \in ChunkTexts : TaskChunk(t, text)
    \/ \E t \in 1..MaxTasks : TaskOptOut(t)
    \/ \E t \in 1..MaxTasks : TaskStreamEnd(t)
    \/ \E t \in 1..MaxTasks : TaskError(t)
    \/ \E t \in 1..MaxTasks : TaskFinish(t)
    \/ \E t \in 1..MaxTasks : TaskCancelled(t)
    \/ \E t \in 1..MaxTasks : TaskCallbacks(t)

\* Dispatch: stream h1 joins, sends messages that mention LLMs, creates polls
\* and interrupts; stream h2 of another user joins and leaves at any time;
\* the LLM tasks run in between.
Next ==
    \/ \E h \in Handlers : ~Joined(h) /\ nframes < MaxFrames /\ Join(h, "r1", UserOf(h))
    \/ \E matched \in MentionLists \ {<<>>} :
            Joined("h1") /\ nframes < MaxFrames /\ Message("h1", matched)
    \/ Joined("h1") /\ nframes < MaxFrames /\ CreatePoll("h1")
    \/ \E l \in LLMIds : Joined("h1") /\ nframes < MaxFrames /\ Interrupt("h1", l)
    \/ \E h \in Handlers : Joined(h) /\ Close(h)
    \/ \E h \in Handlers : Closed(h)
    \/ TaskStep

Spec == Init /\ [][Next]_vars

\* Interrupts: both streams join the room, either sends a message that
\* mentions claude, either interrupts claude.
InterruptNext ==
    \/ \E h \in Handlers : ~Joined(h) /\ Join(h, "r1", UserOf(h))
    \/ \E h \in Handlers :
            Joined(h) /\ nframes < MaxInterruptFrames /\ Message(h, <<"claude">>)
    \/ \E h \in Handlers :
            Joined(h) /\ nframes < MaxInterruptFrames /\ Interrupt(h, "claude")
    \/ TaskStep

SpecInterrupt == Init /\ [][InterruptNext]_vars

\* Scheduling: the event loop runs every task that is ready, so a call that
\* can take a step takes one, and a handler whose tasks have all ended
\* finishes its shutdown; every provider stream ends (with content, an
\* opt-out or an error).  Nothing obliges a client to send a frame.
FairNext ==
    \/ \E h \in Handlers : ~Joined(h) /\ nframes < MaxFrames /\ Join(h, "r1", UserOf(h))
    \/ Joined("h1") /\ nframes < MaxFrames /\ Message("h1", <<"claude">>)
    \/ Joined("h1") /\ nframes < MaxFrames /\ CreatePoll("h1")
    \/ Joined("h1") /\ nframes < MaxFrames /\ Interrupt("h1", "claude")
    \/ \E h \in Handlers : Joined(h) /\ Close(h)
    \/ \E h \in Handlers : Closed(h)
    \/ TaskStep
SpecFair ==
    /\ Init /\ [][FairNext]_vars
    /\ WF_vars(TaskStep)
    /\ \A h \in Handlers : WF_vars(Closed(h))

\* Room traffic: streams join as any user, join again, type, send messages
\* that mention nobody and leave.
RoomNext ==
    \/ \E h \in Handlers, r \in Rooms, u \in Users :
            nframes < MaxRoomFrames /\ Join(h, r, u)
    \/ \E h \in Handlers : nframes < MaxRoomFrames /\ Typing(h)
    \/ \E h \in Handlers : nframes < MaxRoomFrames /\ Message(h, <<>>)
    \/ \E h \in Handlers : Close(h)

SpecRoom == Init /\ [][RoomNext]_vars

\* Stream end: both handlers join r1 and each may originate a call of claude,
\* whose reply may mention gemini; either stream may end at any time.
CloseNext ==
    \/ \E h \in Handlers :
          ~Joined(h) /\ nframes < MaxCloseFrames /\ Join(h, "r1", UserOf(h))
    \/ \E h \in Handlers :
          Joined(h) /\ nframes < MaxCloseFrames /\ Message(h, <<"claude">>)
    \/ \E h \in Handlers : Joined(h) /\ Close(h)
    \/ \E h \in Handlers : Closed(h)
    \/ \E t \in 1..MaxTasks : TaskStart(t)
    \/ \E t \in 1..MaxTasks : \E text \in ChunkTexts : TaskChunk(t, text)
    \/ \E t \in 1..MaxTasks : TaskStreamEnd(t)
    \/ \E t \in 1..MaxTasks : TaskFinish(t)
    \/ \E t \in 1..MaxTasks : TaskFinishChain(t, "gemini")
    \/ \E t \in 1..MaxTasks : TaskCancelled(t)
    \/ \E t \in 1..MaxTasks : TaskCallbacks(t)
SpecClose == Init /\ [][CloseNext]_vars

\* Writers: both handlers join r1 and send messages and typing notices while
\* their writer tasks drain the queues; a write may fail, a stream may end.
\* The event loop runs a writer that has an event to write; nothing obliges
\* a client to send a frame or to end its stream.
WriterNext ==
    \/ \E h \in Handlers :
          ~Joined(h) /\ nframes < MaxWriterFrames /\ Join(h, "r1", UserOf(h))
    \/ \E h \in Handlers : Joined(h) /\ nframes < MaxWriterFrames /\ Typing(h)
    \/ \E h \in Handlers : Joined(h) /\ nframes < MaxWriterFrames /\ Message(h, <<>>)
    \/ \E h \in Handlers : Write(h)
    \/ \E h \in Handlers : WriteFail(h)
    \/ \E h \in Handlers : Joined(h) /\ Close(h)
SpecWriter ==
    Init /\ [][WriterNext]_vars /\ \A h \in Handlers : WF_vars(Write(h))

\* Polls: both handlers join r1, h1 creates polls (with one or two options,
\* single- or multiple-choice), both users vote and close, and the two LLMs
\* of the room vote through vote_on_poll tool calls.
PollIds == {polls[i].poll_id : i \in 1..Len(polls)}
StrayOption == <<ChZero, ChZero>>
\* the option_ids of a vote on poll_id: one id (of the poll or not), or two
\* ids of the poll
OptionLists(poll_id) ==
    LET ids == {polls[PollIndex(polls, poll_id)].options[k].id :
                    k \in 1..Len(polls[PollIndex(polls, poll_id)].options)}
    IN  {<<o>> : o \in ids \cup {StrayOption}} \cup {<<a, b>> : a \in ids, b \in ids}
ToolOptionLists(poll_id) == {ol \in OptionLists(poll_id) : Len(ol) = 1}

PollNext ==
    \/ \E h \in Handlers :
          ~Joined(h) /\ nframes < MaxPollFrames /\ Join(h, "r1", UserOf(h))
    \/ \E nopts \in 1..2, allow_multiple \in BOOLEAN :
          Joined("h1") /\ nframes < MaxPollFrames
          /\ CreatePollFrame("h1", nopts, allow_multiple)
    \/ \E h \in Handlers : \E p \in PollIds : \E ol \in OptionLists(p) :
          Joined(h) /\ nframes < MaxPollFrames /\ CastVote(h, p, ol)
    \/ \E h \in Handlers : \E p \in PollIds :
          Joined(h) /\ nframes < MaxPollFrames /\ ClosePoll(h, p)
    \/ \E t \in 1..MaxTasks : TaskStart(t)
    \/ \E t \in 1..MaxTasks : \E p \in PollIds : \E ol \in ToolOptionLists(p) :
          TaskVote(t, p, ol)
SpecPoll == Init /\ [][PollNext]_vars

\* Polls of two rooms: h1 joins r1 and h2 joins r2, either creates a
\* two-option poll in its room, and both users and the poll-voting calls
\* vote on and close any poll id of the store.
MaxCrossFrames == 4
CrossNext ==
    \/ ~Joined("h1") /\ nframes < MaxCrossFrames /\ Join("h1", "r1", "u1")
    \/ ~Joined("h2") /\ nframes < MaxCrossFrames /\ Join("h2", "r2", "u2")
    \/ \E h \in Handlers :
          Joined(h) /\ nframes < MaxCrossFrames /\ CreatePollFrame(h, 2, FALSE)
    \/ \E h \in Handlers : \E p \in PollIds : \E ol \in ToolOptionLists(p) :
          Joined(h) /\ nframes < MaxCrossFrames /\ CastVote(h, p, ol)
    \/ \E h \in Handlers : \E p \in PollIds :
          Joined(h) /\ nframes < MaxCrossFrames /\ ClosePoll(h, p)
    \/ \E t \in 1..MaxTasks : TaskStart(t)
    \/ \E t \in 1..MaxTasks : \E p \in PollIds : \E ol \in ToolOptionLists(p) :
          TaskVote(t, p, ol)
SpecCross == Init /\ [][CrossNext]_vars

\* Chains: both streams join r1, h1 sends a message that mentions claude or
\* creates a poll; the calls stream content, name LLMs through mention tool
\* calls, opt out, fail or end, and a reply may mention gemini in its text.
ChainNext ==
    \/ \E h \in Handlers :
          ~Joined(h) /\ nframes < MaxChainFrames /\ Join(h, "r1", UserOf(h))
    \/ Joined("h1") /\ nframes < MaxChainFrames /\ Message("h1", <<"claude">>)
    \/ Joined("h1") /\ nframes < MaxChainFrames /\ CreatePoll("h1")
    \/ \E t \in 1..MaxTasks : TaskStart(t)
    \/ \E t \in 1..MaxTasks : \E text \in ChunkTexts : TaskChunk(t, text)
    \/ \E t \in 1..MaxTasks : \E l \in LLMIds : TaskMention(t, l)
    \/ \E t \in 1..MaxTasks : TaskOptOut(t)
    \/ \E t \in 1..MaxTasks : TaskStreamEnd(t)
    \/ \E t \in 1..MaxTasks : TaskError(t)
    \/ \E t \in 1..MaxTasks : TaskFinish(t)
    \/ \E t \in 1..MaxTasks : TaskFinishChain(t, "gemini")
    \/ \E t \in 1..MaxTasks : TaskCallbacks(t)
SpecChain == Init /\ [][ChainNext]_vars

\* Mutual mentions: h1 joins r1 and sends one message that mentions claude;
\* every call streams content, may name LLMs of the room through mention
\* tool calls, and ends.
MaxLoopTasks == 3
LoopNext ==
    \/ \E h \in Handlers : ~Joined(h) /\ Join(h, "r1", UserOf(h))
    \/ Joined("h1") /\ tasks = <<>> /\ Message("h1", <<"claude">>)
    \/ \E t \in 1..MaxLoopTasks : TaskStart(t)
    \/ \E t \in 1..MaxLoopTasks : \E text \in ChunkTexts : TaskChunk(t, text)
    \/ \E t \in 1..MaxLoopTasks : \E l \in LLMIds : TaskMention(t, l)
    \/ \E t \in 1..MaxLoopTasks : TaskStreamEnd(t)
    \/ \E t \in 1..MaxLoopTasks : TaskFinishWithin(t, MaxLoopTasks)
    \/ \E t \in 1..MaxLoopTasks : TaskCallbacks(t)
SpecLoop == Init /\ [][LoopNext]_vars

\* Mention resolution as a function: a message (the tokens _MENTION_RE finds
\* in its content, and the client's hints) is resolved twice against a
\* room's LLM list, and the mentions of an LLM's reply are dispatched.
LLMClA == [id |-> <<99, 108>>, display_name |-> <<67, 108, 32, 65>>]   \* cl, "Cl A"
LLMG == [id |-> <<103, 109>>, display_name |-> <<71>>]                 \* gm, "G"
LLMCl_a == [id |-> <<99, 50>>, display_name |-> <<99, 108, 95, 97>>]   \* c2, "cl_a"
MentionRooms == {<<LLMClA, LLMG>>, <<LLMClA, LLMCl_a>>}

\* cl, Cl_A, G, bob, ALL
TextTokens == {<<99, 108>>, <<67, 108, 95, 65>>, <<71>>, <<98, 111, 98>>, <<65, 76, 76>>}
\* "@G.", " cl ", bob
ClientTokens == {<<64, 71, 46>>, <<32, 99, 108, 32>>, <<98, 111, 98>>}
\* "Cl A", cl_a, " G ", CL, bob
ReplyMentions == {<<67, 108, 32, 65>>, <<99, 108, 95, 97>>, <<32, 71, 32>>,
                  <<67, 76>>, <<98, 111, 98>>}

\* the lists of at most n elements of S
ListsUpTo(S, n) == UNION {[1..k -> S] : k \in 0..n}

InitMention ==
    /\ messages = [r \in Rooms |-> <<>>]
    /\ clock = Epoch0Us
    /\ uuidCount = 0
    /\ hist = NoHist
    /\ walk = NoWalk
    /\ rooms = FirstRooms
    /\ participants = {}
    /\ polls = <<>>
    /\ registry = [r \in Rooms |-> {}]
    /\ handler = [h \in Handlers |-> [room_id |-> NoName, user_id |-> NoName,
                                       pc |-> "read", await |-> 0,
                                       writer |-> "run", sent |-> 0]]
    /\ outbound = [h \in Handlers |-> <<>>]
    /\ tasks = <<>>
    /\ pending = [h \in Handlers |-> {}]
    /\ active = [h \in Handlers |-> [l \in LLMIds |-> 0]]
    /\ nframes = 0
    /\ bcasts = <<>>
    /\ intr = {}
    /\ \/ \E llms \in MentionRooms, text \in ListsUpTo(TextTokens, MaxMentions),
             client \in ListsUpTo(ClientTokens, 1) :
             query = [kind |-> "match", llms |-> llms, text |-> text, client |-> client,
                      results |-> <<>>]
       \/ \E llms \in MentionRooms, mentions \in ListsUpTo(ReplyMentions, MaxMentions),
             source \in 1..2 :
             query = [kind |-> "chain", llms |-> llms, mentions |-> mentions,
                      source |-> llms[source].id, results |-> <<>>]

\* dispatch_mentions resolves the message
ResolveMentions ==
    /\ query.kind = "match"
    /\ Len(query.results) < 2
    /\ \E order \in Orders(NormalizedMentions(query.client, query.text)) :
          query' = [query EXCEPT !.results =
                        Append(@, match_llms_from_mentions(query.text, query.client,
                                                           query.llms, order))]
    /\ UNCHANGED <<storeVars, hist, walk, sessVars>>

\* the reply's mentions are dispatched
ResolveChain ==
    /\ query.kind = "chain"
    /\ query.results = <<>>
    /\ query' = [query EXCEPT !.results =
                    <<dispatch_llm_mentions(query.llms, query.mentions, query.source)>>]
    /\ UNCHANGED <<storeVars, hist, walk, sessVars>>

MentionNext == ResolveMentions \/ ResolveChain
SpecMention == InitMention /\ [][MentionNext]_vars

\* Joins: the handlers join r1 or a room that was never created, as either
\* user and more than once; they send messages, h1 creates and closes polls,
\* and streams end.  The LLM calls of a poll do not come to run before their
\* handler's stream ends.
NoSuchRoom == "r9"
JoinRooms == {"r1", NoSuchRoom}
JoinNext ==
    \/ \E h \in Handlers, r \in JoinRooms, u \in Users :
          nframes < MaxJoinFrames /\ Join(h, r, u)
    \/ \E h \in Handlers : Joined(h) /\ nframes < MaxJoinFrames /\ Message(h, <<>>)
    \/ Joined("h1") /\ nframes < MaxJoinFrames /\ CreatePoll("h1")
    \/ \E p \in PollIds : Joined("h1") /\ nframes < MaxJoinFrames /\ ClosePoll("h1", p)
    \/ \E h \in Handlers : Close(h)
    \/ \E h \in Handlers : Closed(h)
    \/ \E t \in 1..MaxTasks : TaskCancelled(t)
    \/ \E t \in 1..MaxTasks : TaskCallbacks(t)

\* the history of a room that has been in use: n human messages, the last of
\* them one read of the clock before the modelled window opens
BacklogHead == 50
BacklogTime(n, i) == Epoch0Us - (n - i + 1) * SessionDt
Backlog(n) ==
    [i \in 1..n |-> StoredMessage(uuid4(BacklogHead, i), "u1", "HUMAN", "text", NoStr,
                                  BacklogTime(n, i), NoStr)]

\* the service with r1 either new or holding as many messages as one
\* room_state carries
InitJoin ==
    /\ \E n \in {0, HistoryLimit} :
          messages = [r \in Rooms |-> IF r = "r1" THEN Backlog(n) ELSE <<>>]
    /\ clock = Epoch0Us
    /\ uuidCount = 0
    /\ hist = NoHist
    /\ walk = NoWalk
    /\ rooms = FirstRooms
    /\ participants = {}
    /\ polls = <<>>
    /\ registry = [r \in Rooms |-> {}]
    /\ handler = [h \in Handlers |-> [room_id |-> NoName, user_id |-> NoName,
                                       pc |-> "read", await |-> 0,
                                       writer |-> "run", sent |-> 0]]
    /\ outbound = [h \in Handlers |-> <<>>]
    /\ tasks = <<>>
    /\ pending = [h \in Handlers |-> {}]
    /\ active = [h \in Handlers |-> [l \in LLMIds |-> 0]]
    /\ nframes = 0
    /\ bcasts = <<>>
    /\ intr = {}
    /\ query = NoQuery

SpecJoin == InitJoin /\ [][JoinNext]_vars

\* LLM administration: rooms are created with any initial list of LLM
\* configurations, streams join the rooms and add, update and remove LLMs.
InitialLLMLists ==
    {<<>>, RoomLLMConfigs,
     <<LLMConfig("claude", DefaultModel), LLMConfig("claude", "m1")>>}
NewLLMs == {LLMConfig("claude", "m1"), LLMConfig("gpt", DefaultModel)}
AdminLLMIds == {"claude", "gpt"}
AdminNext ==
    \/ \E llms \in InitialLLMLists : CreateRoom("u1", llms, "public")
    \/ \E h \in Handlers : \E r \in DOMAIN rooms \ {"r2"} :
          ~Joined(h) /\ nframes < MaxAdminFrames /\ Join(h, r, UserOf(h))
    \/ \E h \in Handlers : \E llm \in NewLLMs :
          nframes < MaxAdminFrames /\ AddLLM(h, llm)
    \/ \E h \in Handlers : \E l \in AdminLLMIds : \E model \in {NoModel, "m1"} :
          nframes < MaxAdminFrames /\ UpdateLLM(h, l, model)
    \/ \E h \in Handlers : \E l \in AdminLLMIds :
          nframes < MaxAdminFrames /\ RemoveLLM(h, l)
SpecAdmin == Init /\ [][AdminNext]_vars

\* A stream that joins no room: h2 joins r1 as u2 and creates a poll, whose
\* voting calls run; h1 sends every kind of frame, as u1, and joins only a
\* room that does not exist.
MaxUnjoinedFrames == 5
UnjoinedNext ==
    \/ ~Joined("h2") /\ Join("h2", "r1", "u2")
    \/ Joined("h2") /\ polls = <<>> /\ CreatePoll("h2")
    \/ nframes < MaxUnjoinedFrames /\ Join("h1", NoSuchRoom, "u1")
    \/ nframes < MaxUnjoinedFrames /\ Message("h1", <<>>)
    \/ nframes < MaxUnjoinedFrames /\ Typing("h1")
    \/ nframes < MaxUnjoinedFrames /\ Interrupt("h1", "claude")
    \/ nframes < MaxUnjoinedFrames /\ AddLLM("h1", LLMConfig("gpt", DefaultModel))
    \/ nframes < MaxUnjoinedFrames /\ UpdateLLM("h1", "claude", "m1")
    \/ nframes < MaxUnjoinedFrames /\ RemoveLLM("h1", "claude")
    \/ nframes < MaxUnjoinedFrames /\ CreatePollFrame("h1", 2, FALSE)
    \/ \E p \in PollIds : \E ol \in ToolOptionLists(p) :
          nframes < MaxUnjoinedFrames /\ CastVote("h1", p, ol)
    \/ \E p \in PollIds : nframes < MaxUnjoinedFrames /\ ClosePoll("h1", p)
    \/ \E t \in 1..MaxTasks : TaskStart(t)
    \/ \E t \in 1..MaxTasks : TaskStreamEnd(t)
    \/ \E t \in 1..MaxTasks : TaskFinish(t)
    \/ \E t \in 1..MaxTasks : TaskCallbacks(t)
SpecUnjoined == Init /\ [][UnjoinedNext]_vars

\* Room listing: users create public and private rooms, streams join any
\* room by its id, and then the rooms are listed (for any caller, limit and
\* cursor) or one is fetched by id.
ListCallers == {NoneUser, NoName} \cup Users
ListLimits == {-1, 0, 1, 2}
ListNext ==
    \/ \E u \in Users : \E visibility \in {"public", "private"} :
          query = NoQuery /\ CreateRoom(u, RoomLLMConfigs, visibility)
    \/ \E h \in Handlers : \E r \in DOMAIN rooms :
          /\ query = NoQuery /\ ~Joined(h) /\ nframes < MaxListFrames
          /\ Join(h, r, UserOf(h))
    \/ \E u \in ListCallers : \E limit \in ListLimits :
          \E cursor \in {NoName, NoSuchRoom} \cup DOMAIN rooms :
              query = NoQuery /\ ListRooms(u, limit, cursor)
    \/ \E r \in DOMAIN rooms \cup {NoSuchRoom} : query = NoQuery /\ GetRoom(r)
SpecList == Init /\ [][ListNext]_vars

\* Paging through the room list: users create public and private rooms,
\* streams join rooms, and then a user lists the rooms page by page.
WalkLimits == {0, 1, 2}
ListWalkNext ==
    \/ \E u \in Users : \E visibility \in {"public", "private"} :
          query = NoQuery /\ CreateRoom(u, RoomLLMConfigs, visibility)
    \/ \E h \in Handlers : \E r \in DOMAIN rooms :
          /\ query = NoQuery /\ Reading(h) /\ nframes < MaxListWalkFrames
          /\ Join(h, r, UserOf(h))
    \/ \E u \in Users : \E limit \in WalkLimits :
          query = NoQuery /\ ListWalkStart(u, limit)
    \/ ListWalkStep
SpecListWalk == Init /\ [][ListWalkNext]_vars

---------------------------------------------------------------------------
\* Claims about the Store's message history.

Min(a, b) == IF a <= b THEN a ELSE b

\* two messages of the room, the earlier with the larger sort key
KeyInversion(msgs) ==
    \E i, j \in 1..Len(msgs) : i < j /\ StrLess(msgs[j].sort_key, msgs[i].sort_key)

\* C8: paging load_history from no cursor through every next_cursor yields,
\* concatenated oldest-first, exactly the room's messages in append order
\* (those present when the walk began: all of them when none was added
\* meanwhile), none repeated or skipped; while the walk is under way the
\* pages read so far are the newest part of that history.
C8_WalkReadsWholeHistory ==
    walk.on =>
        LET msgs == messages[walk.room]
            got == Len(walk.pages)
        IN  /\ got <= walk.n0
            /\ walk.pages = SubSeq(msgs, walk.n0 - got + 1, walk.n0)
            /\ walk.cursor = NoStr => walk.pages = SubSeq(msgs, 1, walk.n0)
            /\ (walk.cursor = NoStr /\ walk.n0 = Len(msgs)) => walk.pages = msgs
            /\ \A i, j \in 1..got :
                    i # j => walk.pages[i].message_id # walk.pages[j].message_id

\* a finished walk of three pages over five messages, two of them stamped in
\* one millisecond with sort keys against the append order
C8_Witness ==
    /\ walk.on
    /\ walk.cursor = NoStr
    /\ walk.npages = 3
    /\ walk.n0 = 5
    /\ Len(messages[walk.room]) = 5
    /\ KeyInversion(messages[walk.room])

\* the messages of the room the recorded call read
HistMsgs == messages[hist.room]

\* the number of messages in front of the cursor's message; all of them when
\* there is no cursor or no message carries it
HistEnd ==
    IF hist.cursor # NoStr /\ CursorIndex(HistMsgs, hist.cursor) > 0
    THEN CursorIndex(HistMsgs, hist.cursor) - 1
    ELSE Len(HistMsgs)

Ascending(page) ==
    \A i, j \in 1..Len(page) : i < j => page[i].timestamp <= page[j].timestamp

\* S6 scaled from 120 messages / limit 50 to 5 messages / limit 2: pages of
\* 2, 2 and 1 messages, only the third without next_cursor
ScenarioS6(msgs) ==
    Len(msgs) = 5 =>
        LET p1 == load_history(msgs, 2, NoStr)
            p2 == load_history(msgs, 2, p1.next_cursor)
            p3 == load_history(msgs, 2, p2.next_cursor)
        IN  /\ Len(p1.page) = 2 /\ p1.next_cursor # NoStr
            /\ Len(p2.page) = 2 /\ p2.next_cursor # NoStr
            /\ Len(p3.page) = 1 /\ p3.next_cursor = NoStr
            /\ p3.page \o p2.page \o p1.page = msgs

C10_SortKeyOrder ==
    \A r \in Rooms : \A i, j \in 1..Len(messages[r]) :
        i < j => StrLeq(messages[r][i].sort_key, messages[r][j].sort_key)

\* the part of C10 that holds: a step keeps every stored message and only
\* appends
C10_AppendOnly ==
    [][\A r \in Rooms :
            /\ Len(messages'[r]) >= Len(messages[r])
            /\ SubSeq(messages'[r], 1, Len(messages[r])) = messages[r]]_vars


---------------------------------------------------------------------------
\* Claims about LLM calls.

LlmTypes == {"llm_thinking", "llm_chunk", "llm_done"}

\* the broadcasts of one type about call t, as positions of the record
LogOf(t, type) ==
    {k \in 1..Len(bcasts) : bcasts[k].ev.type = type /\ bcasts[k].ev.call = t}

\* the positions in h's queue of the events of call t
CallEvents(h, t) ==
    {i \in 1..Len(outbound[h]) :
        outbound[h][i].type \in LlmTypes /\ outbound[h][i].call = t}

\* the messages of the room of call t sent by its LLM in reply to its trigger
RepliesOf(t) ==
    LET msgs == RoomMsgs(messages, tasks[t].room_id)
    IN  {i \in 1..Len(msgs) : /\ msgs[i].sender_id = tasks[t].llm_id
                              /\ msgs[i].reply_to = tasks[t].trigger_msg_id}

\* C1: an interrupt{llm_id} from a joined handler, sent while a call for llm_id
\* is in flight in the handler's room, cancels a call, whichever handler's
\* message started it.
C1_InterruptCancelsAnyHandlersCall ==
    \A e \in intr : e.inflight # {} => e.cancelled # 0

\* C2: a cancelled LLM call never stores a message: at whichever suspension
\* point the cancellation lands, the Store holds no message sent by the call's
\* LLM in reply to the call's trigger message, nor one under the id of the
\* call's chunks.
C2_CancelledStoresNothing ==
    \A t \in TaskIds :
        tasks[t].outcome = "cancelled" =>
            LET msgs == RoomMsgs(messages, tasks[t].room_id)
            IN  /\ RepliesOf(t) = {}
                /\ tasks[t].response_msg_id # NoStr =>
                       \A i \in 1..Len(msgs) :
                            msgs[i].message_id # tasks[t].response_msg_id

\* a call is cancelled in channel.close(), after it streamed a chunk, and its
\* done callbacks have run
C2_Witness ==
    \E t \in TaskIds : /\ tasks[t].outcome = "cancelled"
                       /\ tasks[t].at = "close"
                       /\ tasks[t].content # <<>>
                       /\ tasks[t].cb

Rank(ev) ==
    CASE ev.type = "llm_thinking" -> 0
      [] ev.type = "llm_chunk" -> ev.n
      [] ev.type = "llm_done" -> Len(tasks[ev.call].content) + 1

\* C4: for a single LLM call, in every handler's queue llm_thinking comes
\* before every llm_chunk of the call and every llm_chunk before the call's
\* llm_done, the chunks in the order of emission; a handler registered from
\* llm_thinking to llm_done holds all of them, whatever other calls interleave.
C4_ThinkingChunksDone ==
    \A t \in TaskIds, h \in Handlers :
        LET q == outbound[h]
            idx == CallEvents(h, t)
        IN  /\ \A i, j \in idx : i < j => Rank(q[i]) < Rank(q[j])
            /\ \A k1 \in LogOf(t, "llm_thinking"), k2 \in LogOf(t, "llm_done") :
                    (h \in bcasts[k1].to /\ h \in bcasts[k2].to) =>
                        {Rank(q[i]) : i \in idx} = 0..(Len(tasks[t].content) + 1)

\* a handler holds the whole of a call with two chunks, and an event of
\* another call between the two chunks
C4_Witness ==
    \E t, t2 \in TaskIds, h \in Handlers :
        /\ t # t2
        /\ Len(tasks[t].content) = 2
        /\ {Rank(outbound[h][i]) : i \in CallEvents(h, t)} = 0..3
        /\ \E i, j \in CallEvents(h, t), m \in CallEvents(h, t2) :
                /\ outbound[h][i].type = "llm_chunk"
                /\ outbound[h][j].type = "llm_chunk"
                /\ i < m /\ m < j

---------------------------------------------------------------------------
\* Claims about broadcasts.

\* how many events of q came with broadcast k
Copies(q, k) == Cardinality({i \in 1..Len(q) : q[i].seq = k})

\* the room-wide events the model sends
RoomWideTypes ==
    {"message_received", "llm_thinking", "llm_chunk", "llm_done", "poll_created"}

\* the events about a user
SubjectTypes == {"user_joined", "user_left", "user_typing"}

C6_AllButTheSubject ==
    \A k \in 1..Len(bcasts) :
        bcasts[k].ev.type \in SubjectTypes =>
            \A h \in Handlers :
                Copies(outbound[h], k) =
                    IF h \in bcasts[k].to /\ bcasts[k].uid[h] # bcasts[k].ev.user_id
                    THEN 1 ELSE 0

\* with the handlers of two users registered, one user typed and one left:
\* the other handler got user_typing, the typist did not, and user_left went
\* to the handler that stayed
C6_Witness ==
    \E k, m \in 1..Len(bcasts) : \E h \in Handlers :
        /\ bcasts[k].ev.type = "user_typing"
        /\ bcasts[k].to = Handlers
        /\ bcasts[k].uid[h] = bcasts[k].ev.user_id
        /\ \A g \in Handlers \ {h} : Copies(outbound[g], k) = 1
        /\ Copies(outbound[h], k) = 0
        /\ bcasts[m].ev.type = "user_left"
        /\ bcasts[m].to # {}

\* position of the message with this id in the room's list
StoreIndex(room_id, msg_id) ==
    CHOOSE i \in 1..Len(RoomMsgs(messages, room_id)) :
        RoomMsgs(messages, room_id)[i].message_id = msg_id

\* C7: for two messages of one room, the one appended to the Store first has
\* its message_received before the other's in the queue of every handler that
\* receives both, also when they come from different handlers.
C7_ReceivedInStoreOrder ==
    \A h \in Handlers : \A i, j \in 1..Len(outbound[h]) :
        LET q == outbound[h]
        IN  (i < j /\ q[i].type = "message_received" /\ q[j].type = "message_received"
                   /\ bcasts[q[i].seq].room = bcasts[q[j].seq].room) =>
                StoreIndex(bcasts[q[i].seq].room, q[i].message_id)
                    < StoreIndex(bcasts[q[j].seq].room, q[j].message_id)

\* a handler holds message_received of two messages of different senders
C7_Witness ==
    \E h \in Handlers : \E i, j \in 1..Len(outbound[h]) :
        LET q == outbound[h]
        IN  /\ i < j
            /\ q[i].type = "message_received"
            /\ q[j].type = "message_received"
            /\ bcasts[q[i].seq].room = bcasts[q[j].seq].room
            /\ LET r == bcasts[q[i].seq].room
                   msgs == RoomMsgs(messages, r)
               IN  msgs[StoreIndex(r, q[i].message_id)].sender_id
                        # msgs[StoreIndex(r, q[j].message_id)].sender_id

---------------------------------------------------------------------------
\* Claims about polls.

Voters == Users \cup LLMIds

\* the votes of voter v in a poll, as (option position, vote position) pairs
VotesOf(poll, v) ==
    {<<k, j>> \in (1..Len(poll.options)) \X (1..MaxVotes + MaxPollFrames + 1) :
        /\ j <= Len(poll.options[k].votes)
        /\ poll.options[k].votes[j].voter_id = v}

\* the poll_voted broadcasts about voter v's votes in poll_id
VotedLog(poll_id, v) ==
    {i \in 1..Len(bcasts) : /\ bcasts[i].ev.type = "poll_voted"
                            /\ bcasts[i].ev.poll_id = poll_id
                            /\ bcasts[i].ev.voter_id = v}

\* the greatest element of a nonempty set of serial numbers
Latest(S) == CHOOSE i \in S : \A j \in S : j <= i

\* the polls as one more add_vote would leave them
VoteNow(poll_id, option_id, v) == add_vote(polls, poll_id, option_id, v, now(SessionDt))

\* C11: after a successful add_vote by voter v for option_k of a
\* single-choice poll, the poll holds exactly one vote by v and it is on
\* option_k.  Stated twice: for one more add_vote applied to any reachable
\* store, and for the store itself against the latest poll_voted that the
\* cast_vote frames and vote_on_poll tool calls have broadcast for v.
C11_SingleChoiceOneVote ==
    \A i \in 1..Len(polls) : ~polls[i].allow_multiple =>
        \A v \in Voters :
            /\ \A k \in 1..Len(polls[i].options) :
                  LET res == VoteNow(polls[i].poll_id, polls[i].options[k].id, v)
                  IN  res.ok =>
                        /\ Cardinality(VotesOf(res.polls[i], v)) = 1
                        /\ \A kj \in VotesOf(res.polls[i], v) : kj[1] = k
            /\ LET log == VotedLog(polls[i].poll_id, v)
               IN  log # {} =>
                     /\ Cardinality(VotesOf(polls[i], v)) = 1
                     /\ \A kj \in VotesOf(polls[i], v) :
                           polls[i].options[kj[1]].id = bcasts[Latest(log)].ev.option_id

\* a human and an LLM have each moved their vote on a single-choice poll from
\* one option to another
C11_Witness ==
    \E i \in 1..Len(polls) :
        /\ ~polls[i].allow_multiple
        /\ \E u \in Users, l \in LLMIds :
              \A v \in {u, l} :
                 /\ \E a, b \in VotedLog(polls[i].poll_id, v) :
                       bcasts[a].ev.option_id # bcasts[b].ev.option_id
                 /\ Cardinality(VotesOf(polls[i], v)) = 1

\* C12: no poll option holds two votes of one voter, and an add_vote by a
\* voter who already voted for that option returns nothing and leaves the
\* polls as they are, on single-choice polls too.
C12_NoDoubleVote ==
    \A i \in 1..Len(polls) : \A k \in 1..Len(polls[i].options) :
        LET option == polls[i].options[k]
        IN  /\ \A a, b \in 1..Len(option.votes) :
                  option.votes[a].voter_id = option.votes[b].voter_id => a = b
            /\ \A v \in Voters :
                  HasVoted(option, v) =>
                      LET res == VoteNow(polls[i].poll_id, option.id, v)
                      IN  ~res.ok /\ res.polls = polls

\* an open single-choice poll is asked for a second vote by a human and by
\* an LLM who each hold their one vote on the option
C12_Witness ==
    \E i \in 1..Len(polls) :
        /\ ~polls[i].allow_multiple
        /\ polls[i].status = "open"
        /\ \E k \in 1..Len(polls[i].options), u \in Users, l \in LLMIds :
              /\ HasVoted(polls[i].options[k], u)
              /\ HasVoted(polls[i].options[k], l)
              /\ ~VoteNow(polls[i].poll_id, polls[i].options[k].id, u).ok
              /\ ~VoteNow(polls[i].poll_id, polls[i].options[k].id, l).ok

\* the poll_closed broadcasts about poll_id
ClosedLog(poll_id) ==
    {i \in 1..Len(bcasts) : /\ bcasts[i].ev.type = "poll_closed"
                            /\ bcasts[i].ev.poll_id = poll_id}

PollClosed(i) == polls[i].status = "closed"

\* C13: votes are accepted only while the poll is open.  On a closed poll an
\* add_vote by any voter for any option returns nothing and changes nothing;
\* no poll_voted about the poll follows its poll_closed; and no step (a
\* cast_vote frame, a vote_on_poll tool call of a task still streaming)
\* changes a vote list of a closed poll.
C13_VotesOnlyWhileOpen ==
    /\ [](\A i \in 1..Len(polls) : PollClosed(i) =>
            /\ \A k \in 1..Len(polls[i].options), v \in Voters :
                  LET res == VoteNow(polls[i].poll_id, polls[i].options[k].id, v)
                  IN  ~res.ok /\ res.polls = polls
            /\ \A c \in ClosedLog(polls[i].poll_id), v \in Voters :
                  \A b \in VotedLog(polls[i].poll_id, v) : b < c)
    /\ [][\A i \in 1..Len(polls) : PollClosed(i) =>
            /\ polls'[i].options = polls[i].options
            /\ \A v \in Voters : VotedLog(polls[i].poll_id, v)' =
                                 VotedLog(polls[i].poll_id, v)]_vars

\* a poll that collected an LLM's vote was closed while an LLM call that may
\* still vote is streaming and a cast_vote frame can still arrive
C13_Witness ==
    \E i \in 1..Len(polls) :
        /\ PollClosed(i)
        /\ ClosedLog(polls[i].poll_id) # {}
        /\ \E l \in LLMIds : VotedLog(polls[i].poll_id, l) # {}
        /\ \E t \in TaskIds :
              ENABLED TaskVote(t, polls[i].poll_id, <<polls[i].options[1].id>>)
        /\ nframes < MaxPollFrames

\* C14: close_poll is idempotent on a closed poll: no step changes a closed
\* poll (its status, and the closed_at the first close gave it).
C14_CloseIdempotent ==
    [][\A i \in 1..Len(polls) : PollClosed(i) => polls'[i] = polls[i]]_vars

\* the one-way half of C14: no step returns a closed poll to open
C14_NeverReopens ==
    [][\A i \in 1..Len(polls) : PollClosed(i) => PollClosed(i)']_vars

\* the INVALID_POLL errors in handler h's outbound queue
InvalidPollErrors(q) ==
    {i \in 1..Len(q) : q[i].type = "error" /\ q[i].code = "INVALID_POLL"}

\* C15: a create_poll frame with fewer than two options has exactly one
\* effect.  The step that enqueues error{INVALID_POLL} to a handler appends
\* that one event to that handler's queue and changes neither another queue,
\* nor the polls, the messages, the broadcasts or the LLM tasks; and every
\* poll has at least two options.
C15_InvalidPollOnlyErrors ==
    /\ [](\A i \in 1..Len(polls) : Len(polls[i].options) >= 2)
    /\ [][\A h \in Handlers :
            InvalidPollErrors(outbound'[h]) # InvalidPollErrors(outbound[h]) =>
                /\ outbound'[h] = Append(outbound[h], EvError("INVALID_POLL", 0, 0))
                /\ \A g \in Handlers \ {h} : outbound'[g] = outbound[g]
                /\ UNCHANGED <<polls, messages, bcasts, tasks, pending, active, registry,
                               clock, uuidCount>>]_vars

\* h1 was refused a poll while h2 was registered to the room: h2's queue has
\* no error, there is no poll, no message and no LLM task
C15_Witness ==
    /\ InvalidPollErrors(outbound["h1"]) # {}
    /\ "h2" \in RoomHandlers(registry, "r1")
    /\ \A i \in 1..Len(outbound["h2"]) : outbound["h2"][i].type # "error"
    /\ polls = <<>> /\ tasks = <<>> /\ RoomMsgs(messages, "r1") = <<>>

---------------------------------------------------------------------------
\* Claims about the end of a stream.

\* the handler's stream has ended: run() is in its `finally`
Ending(h) == handler[h].pc \in {"gather", "done"}

Owned(h) == {t \in TaskIds : tasks[t].owner = h}

\* the broadcasts about call t
CallLog(t) ==
    {i \in 1..Len(bcasts) : bcasts[i].ev.type \in LlmTypes /\ bcasts[i].ev.call = t}

\* the stored messages that are replies of call t
StoredReplies(t) ==
    {i \in 1..Len(RoomMsgs(messages, tasks[t].room_id)) :
        RoomMsgs(messages, tasks[t].room_id)[i].message_id = tasks[t].response_msg_id}

\* C16: when a handler's stream ends, exactly the LLM tasks it originated
\* (those chain-dispatched from them included) are cancelled, and they have
\* finished before the handler unregisters; afterwards none of them stores a
\* message or broadcasts; the tasks of other handlers are left alone and
\* those handlers stay registered.
C16_CloseCancelsOwnTasks ==
    /\ [](\A h \in Handlers :
            /\ Ending(h) => \A t \in Owned(h) : TaskDone(t) \/ tasks[t].must_cancel
            /\ handler[h].pc = "gather" => h \in RoomHandlers(registry, handler[h].room_id)
            /\ handler[h].pc = "done" => \A t \in Owned(h) : TaskDone(t)
            /\ \A t \in Owned(h) : tasks[t].must_cancel => Ending(h))
    /\ [][\A h \in Handlers :
            /\ handler[h].pc = "done" =>
                  \A t \in Owned(h) : /\ CallLog(t)' = CallLog(t)
                                      /\ StoredReplies(t)' = StoredReplies(t)
            /\ handler'[h].pc # handler[h].pc /\ Ending(h)' =>
                  \A g \in Handlers \ {h} :
                     /\ \A t \in Owned(g) : tasks'[t] = tasks[t]
                     /\ \A r \in Rooms : g \in RoomHandlers(registry, r)
                                           <=> g \in RoomHandlers(registry', r)]_vars

\* h1's stream ended and its call was cancelled while streaming; h2 is still
\* registered and its call is streaming, not asked to cancel
C16_Witness ==
    /\ handler["h1"].pc = "done"
    /\ "h1" \notin RoomHandlers(registry, "r1")
    /\ \E t \in Owned("h1") : tasks[t].outcome = "cancelled" /\ tasks[t].at = "stream"
    /\ "h2" \in RoomHandlers(registry, "r1")
    /\ \E t \in Owned("h2") : tasks[t].pc = "stream" /\ ~tasks[t].must_cancel

\* h1's stream ended after one of its calls had returned and chain-dispatched
\* a call of gemini, which was cancelled
C16_ChainWitness ==
    /\ handler["h1"].pc = "done"
    /\ \E t \in Owned("h1") : tasks[t].outcome = "cancelled" /\ tasks[t].llm_id = "gemini"
    /\ \E t \in Owned("h1") : tasks[t].outcome = "returned"
    /\ "h2" \in RoomHandlers(registry, "r1")

\* the user_left broadcasts to room r about user u
LeftLog(r, u) ==
    {i \in 1..Len(bcasts) : /\ bcasts[i].ev.type = "user_left"
                            /\ bcasts[i].room = r
                            /\ bcasts[i].ev.user_id = u}

\* the step in which handler h, joined, completes its termination
Terminates(h) == Joined(h) /\ handler[h].pc # "done" /\ handler'[h].pc = "done"

\* the handlers other than h that room r's registry holds and whose user is
\* u, whichever room they are bound to now
OthersFor(reg, h, r, u) == {g \in RoomHandlers(reg, r) \ {h} : handler[g].user_id = u}

\* those of them that are handlers for (r, u)
OthersBound(reg, h, r, u) == {g \in OthersFor(reg, h, r, u) : handler[g].room_id = r}

\* C17: when a joined handler for (room, user) terminates, user_left{user}
\* is broadcast to the room exactly when, with this handler unregistered, no
\* other handler for the same (room, user) is registered; that is then the
\* one broadcast of the step, and no other step broadcasts user_left.
C17_UserLeftIffLast ==
    [][/\ \A h \in Handlers : Terminates(h) =>
             LET r == handler[h].room_id
                 u == handler[h].user_id
             IN  /\ h \notin RoomHandlers(registry', r)
                 /\ IF OthersBound(registry', h, r, u) = {}
                    THEN /\ Len(bcasts') = Len(bcasts) + 1
                         /\ LeftLog(r, u)' = LeftLog(r, u) \cup {Len(bcasts')}
                    ELSE bcasts' = bcasts
       /\ (\E i \in (Len(bcasts) + 1)..Len(bcasts') : bcasts'[i].ev.type = "user_left")
             => \E h \in Handlers : Terminates(h)]_vars

\* what the code decides by: the same with every handler that the room's
\* registry set holds for the user id, bound to the room or not
C17_UserLeftByRegistrySet ==
    [][/\ \A h \in Handlers : Terminates(h) =>
             LET r == handler[h].room_id
                 u == handler[h].user_id
             IN  /\ h \notin RoomHandlers(registry', r)
                 /\ IF OthersFor(registry', h, r, u) = {}
                    THEN /\ Len(bcasts') = Len(bcasts) + 1
                         /\ LeftLog(r, u)' = LeftLog(r, u) \cup {Len(bcasts')}
                    ELSE bcasts' = bcasts
       /\ (\E i \in (Len(bcasts) + 1)..Len(bcasts') : bcasts'[i].ev.type = "user_left")
             => \E h \in Handlers : Terminates(h)]_vars

\* two handlers of one user were joined to a room at once and both have
\* terminated: the room saw exactly one user_left for the user
C17_TwoHandlersOneLeft ==
    \E r \in Rooms, u \in Users :
        /\ \A h \in Handlers : /\ handler[h].pc = "done"
                               /\ handler[h].room_id = r /\ handler[h].user_id = u
        /\ Cardinality(LeftLog(r, u)) = 1
        /\ \E i \in 1..Len(bcasts) : /\ bcasts[i].ev.type = "user_joined"
                                     /\ bcasts[i].room = r
                                     /\ bcasts[i].to = Handlers

---------------------------------------------------------------------------
\* Claims about the writer and the outbound queue.

\* C18: when a handler's writer task has ended because a write failed, the
\* run loop eventually terminates: it stops reading and goes through
\* cancel_pending_tasks, unregister and user_left.
C18_WriterEndStopsRun ==
    \A h \in Handlers : (handler[h].writer = "failed") ~> (handler[h].pc = "done")

\* the stand-in for the fixed capacity of an outbound queue
QueueCapacity == 2

\* C19: an outbound queue never holds more events than its capacity.
C19_QueueBounded == \A h \in Handlers : Queued(h) <= QueueCapacity

---------------------------------------------------------------------------
\* Claims about presence.

\* the stream of handler h has not terminated
Live(h) == handler[h].pc # "done"

\* C20: a user is reported online in a room exactly when a live handler is
\* bound to (room, user), and a handler whose stream has terminated is in no
\* room's registry set.
C20_OnlineIffLiveHandler ==
    /\ \A r \in Rooms, u \in Users :
          u \in get_online_user_ids(registry, handler, r)
             <=> \E h \in Handlers : /\ Live(h)
                                     /\ handler[h].room_id = r
                                     /\ handler[h].user_id = u
    /\ \A h \in Handlers : ~Live(h) => \A r \in Rooms : h \notin RoomHandlers(registry, r)

\* the second half of C20 alone
C20_TerminatedUnregistered ==
    \A h \in Handlers : ~Live(h) => \A r \in Rooms : h \notin RoomHandlers(registry, r)

---------------------------------------------------------------------------
\* Claims about join.

\* the errors with the given code in a queue
ErrorsIn(q, code) == {i \in 1..Len(q) : q[i].type = "error" /\ q[i].code = code}

\* handler h is refused a join in this step
Refused(h) ==
    ErrorsIn(outbound'[h], "ROOM_NOT_FOUND") # ErrorsIn(outbound[h], "ROOM_NOT_FOUND")

\* C21: a join frame that names a room that does not exist enqueues one
\* error{ROOM_NOT_FOUND} to the sending handler and changes nothing else.
C21_RefusedJoinChangesNothing ==
    [][\A h \in Handlers : Refused(h) =>
          /\ outbound'[h] = Append(outbound[h], EvError("ROOM_NOT_FOUND", 0, 0))
          /\ \A g \in Handlers \ {h} : outbound'[g] = outbound[g]
          /\ UNCHANGED <<participants, registry, bcasts, messages, polls, tasks,
                         handler>>]_vars

\* the effects C21 lists: one error to the sender, no participant persisted,
\* no registration, no room_state, no user_joined
C21_RefusedJoinListedEffects ==
    [][\A h \in Handlers : Refused(h) =>
          /\ outbound'[h] = Append(outbound[h], EvError("ROOM_NOT_FOUND", 0, 0))
          /\ \A g \in Handlers \ {h} : outbound'[g] = outbound[g]
          /\ UNCHANGED <<participants, registry, bcasts, messages, polls, tasks>>]_vars

\* what the binding to the missing room leads to: a message stored under a
\* room that does not exist
C21_NoMessagesOfMissingRooms ==
    \A r \in DOMAIN messages : r \notin DOMAIN rooms => messages[r] = <<>>

\* the room_state events in a queue
RoomStates(q) == {i \in 1..Len(q) : q[i].type = "room_state"}

\* handler h is sent a room_state in this step
GetsRoomState(h) == RoomStates(outbound'[h]) # RoomStates(outbound[h])

\* the ids of the last min(n, Len(msgs)) messages, oldest first
LastIds(msgs, n) ==
    LET first == IF Len(msgs) > n THEN Len(msgs) - n + 1 ELSE 1
    IN  [i \in 1..(Len(msgs) - first + 1) |-> msgs[first + i - 1].message_id]

\* timestamps do not decrease along a list of messages
Chronological(msgs) ==
    \A i, j \in 1..Len(msgs) : i < j => msgs[i].timestamp <= msgs[j].timestamp

\* C22: each successful join enqueues exactly one room_state, to the joining
\* handler only.  It lists every participant stored for the room, online
\* exactly when a registered handler of the room is of that user (the joiner
\* is), the last min(50, n) messages of the room, oldest first, and exactly
\* the open polls of the room.
C22_RoomStateOnJoin ==
    [][/\ \A h \in Handlers : GetsRoomState(h) =>
             LET r == handler'[h].room_id
                 ev == outbound'[h][Len(outbound[h]) + 1]
                 hist0 == RoomMsgs(messages', r)
             IN  /\ outbound'[h] = Append(outbound[h], ev)
                 /\ ev.type = "room_state"
                 /\ \A g \in Handlers \ {h} : ~GetsRoomState(g)
                 /\ h \in RoomHandlers(registry', r)
                 /\ ev.participants =
                       {[id |-> p[2],
                         is_online |-> \E g \in RoomHandlers(registry', r) :
                                          handler'[g].user_id = p[2]] :
                          p \in {q \in participants' : q[1] = r}}
                 /\ [id |-> handler'[h].user_id, is_online |-> TRUE] \in ev.participants
                 /\ ev.messages = LastIds(hist0, 50)
                 /\ Chronological(hist0)
                 /\ ev.polls = {polls'[i].poll_id : i \in
                                   {j \in 1..Len(polls') : /\ polls'[j].room_id = r
                                                           /\ polls'[j].status = "open"}}
       /\ (\E i \in (Len(bcasts) + 1)..Len(bcasts') : bcasts'[i].ev.type = "user_joined")
             => \E h \in Handlers : GetsRoomState(h)
       /\ (\E h \in Handlers : h \in RoomHandlers(registry', "r1")
                               /\ h \notin RoomHandlers(registry, "r1"))
             => \E h \in Handlers : GetsRoomState(h)]_vars

\* a handler joined a room of more than 50 messages where a stored
\* participant has no registered handler: its room_state has 50 messages and
\* participants of both kinds
C22_Witness ==
    \E h \in Handlers : \E i \in RoomStates(outbound[h]) :
        LET ev == outbound[h][i]
        IN  /\ Len(ev.messages) = 50
            /\ Len(RoomMsgs(messages, "r1")) > 50
            /\ \E p, q \in ev.participants : p.is_online /\ ~q.is_online

---------------------------------------------------------------------------
\* Claims about mention resolution.

NoDuplicates(seq) == \A i, j \in 1..Len(seq) : seq[i] = seq[j] => i = j

\* the position of the first token of a merged token list that resolves to llm
FirstMention(tokens, llms, llm) ==
    CHOOSE i \in 1..Len(tokens) :
        /\ LookupMention(llms, normalize_mention(tokens[i])) = llm
        /\ \A j \in 1..(i - 1) : LookupMention(llms, normalize_mention(tokens[j])) # llm

\* result lists the LLMs in the order in which they are first mentioned
ByFirstMention(tokens, llms, result) ==
    \A i, j \in 1..Len(result) :
        i < j => FirstMention(tokens, llms, result[i]) < FirstMention(tokens, llms, result[j])

\* the message mentions everybody
MentionsAll ==
    \/ MentionsAllInText(query.text)
    \/ \E m \in NormalizedMentions(query.client, query.text) : m \in {StrAll, StrEveryone}

\* C23: resolving the same content with the same hints against the same room
\* gives the same list every time, without duplicate LLMs, ordered by the
\* first occurrence of each LLM's mention (hints before text, or text before
\* hints).
C23_MentionOrderStable ==
    query.kind = "match" =>
        /\ \A i, j \in 1..Len(query.results) : query.results[i] = query.results[j]
        /\ \A i \in 1..Len(query.results) :
              /\ NoDuplicates(query.results[i])
              /\ ~MentionsAll =>
                    \/ ByFirstMention(query.client \o query.text, query.llms,
                                      query.results[i])
                    \/ ByFirstMention(query.text \o query.client, query.llms,
                                      query.results[i])

\* what holds of C23: no duplicates, and the same set of LLMs every time
C23_SameSetNoDuplicates ==
    query.kind = "match" =>
        /\ \A i, j \in 1..Len(query.results) :
              Elements(query.results[i]) = Elements(query.results[j])
        /\ \A i \in 1..Len(query.results) : NoDuplicates(query.results[i])

\* the mentions of a reply that name the LLM with the given id, by display
\* name or its underscore form, in any case and with blanks around
NamesOf(llms, mentions, llm_id) ==
    {i \in 1..Len(mentions) :
        \E k \in 1..Len(llms) :
            /\ llms[k].id = llm_id
            /\ Lower(RStrip(LStrip(mentions[i], {ChSpace}), {ChSpace}))
                  \in {Lower(llms[k].display_name), Underscored(Lower(llms[k].display_name))}}

\* C24: dispatch_llm_mentions creates no call for the LLM whose id is
\* source_llm_id, whatever names the reply mentions.
C24_NeverSpawnsSource ==
    query.kind = "chain" =>
        \A r \in 1..Len(query.results) : \A i \in 1..Len(query.results[r]) :
            query.results[r][i].id # query.source

\* a reply that names its own LLM and another LLM of the room was
\* dispatched: a call was created, and none for the source
C24_Witness ==
    /\ query.kind = "chain"
    /\ query.results # <<>>
    /\ NamesOf(query.llms, query.mentions, query.source) # {}
    /\ query.results[1] # <<>>


---------------------------------------------------------------------------
\* Claims about the end of an LLM call.

\* in this step the general call t returns from call_llm past its stream
\* without having opted out
Finishes(t) ==
    /\ tasks[t].pc = "close" /\ tasks'[t].pc = "done"
    /\ tasks'[t].outcome = "returned"
    /\ tasks[t].kind = "general" /\ ~tasks[t].opted_out

\* the calls created for a mention of the reply of call t
ChainedFrom(t) ==
    {s \in TaskIds \ {t} : /\ tasks[t].dispatched
                            /\ tasks[s].kind = "general"
                            /\ tasks[s].trigger_msg_id = tasks[t].response_msg_id}

\* every llm_thinking of a call chained from call t follows the llm_done of
\* t, and its reply_to is the id of the message t stored
C25_ChainedAfterDone ==
    \A t \in TaskIds : \A s \in ChainedFrom(t) : \A i \in LogOf(s, "llm_thinking") :
        /\ \E j \in LogOf(t, "llm_done") : j < i
        /\ \E k \in 1..Len(RoomMsgs(messages, tasks[t].room_id)) :
              LET m == RoomMsgs(messages, tasks[t].room_id)[k]
              IN  /\ m.message_id = bcasts[i].ev.reply_to
                  /\ m.sender_id = tasks[t].llm_id

\* C25: whenever a general LLM call finishes without opting out, being
\* cancelled or failing, and its mentions (from tool calls and from its text)
\* are not empty, dispatch_llm_mentions is invoked for it, whether or not any
\* content was stored; the chained LLM's llm_thinking follows the source's
\* llm_done and replies to the source's stored message.
C25_MentionsAlwaysDispatched ==
    /\ [][\A t \in TaskIds :
            Finishes(t) /\ tasks[t].mentions # <<>> => tasks'[t].dispatched]_vars
    /\ []C25_ChainedAfterDone

\* what holds instead: the mentions are dispatched exactly when the call
\* stored a message
C25_DispatchedIffStored ==
    [][\A t \in TaskIds :
        Finishes(t) /\ tasks[t].mentions # <<>> =>
            (tasks'[t].dispatched <=> NonBlank(tasks[t].content))]_vars

\* a call chained from a reply that named gemini by tool call has broadcast
\* its llm_thinking
C25_ChainedWitness ==
    \E t \in TaskIds : /\ tasks[t].mentions # <<>>
                        /\ \E s \in ChainedFrom(t) : LogOf(s, "llm_thinking") # {}

\* the messages of the room of call t stored under the id of its chunks
StoredUnder(t) ==
    {k \in 1..Len(RoomMsgs(messages, tasks[t].room_id)) :
        RoomMsgs(messages, tasks[t].room_id)[k].message_id = tasks[t].response_msg_id}

\* C26: a general call that received the opted_out signal or an opt_out tool
\* call reads no further delta and broadcasts no further llm_chunk; it
\* returns with exactly one llm_done broadcast, no message stored for it
\* (whatever chunks it streamed before) and no chained call.
C26_OptOutStoresNothing ==
    /\ [](\A t \in TaskIds :
            tasks[t].opted_out =>
                /\ tasks[t].kind = "general"
                /\ StoredUnder(t) = {} /\ RepliesOf(t) = {}
                /\ ~tasks[t].dispatched /\ ChainedFrom(t) = {}
                /\ Cardinality(LogOf(t, "llm_done")) =
                        (IF tasks[t].outcome = "returned" THEN 1 ELSE 0)
                /\ \A i \in LogOf(t, "llm_chunk") : \A j \in LogOf(t, "llm_done") : i < j)
    /\ [][\A t \in TaskIds :
            tasks[t].opted_out =>
                /\ LogOf(t, "llm_chunk")' = LogOf(t, "llm_chunk")
                /\ tasks'[t].content = tasks[t].content
                /\ tasks'[t].mentions = tasks[t].mentions]_vars

\* a call that streamed a chunk and named gemini by tool call opted out and
\* returned
C26_Witness ==
    \E t \in TaskIds : /\ tasks[t].opted_out /\ tasks[t].outcome = "returned"
                        /\ NonBlank(tasks[t].content) /\ tasks[t].mentions # <<>>
                        /\ LogOf(t, "llm_chunk") # {}

\* the provider stream of call t raised an error
Failed(t) == tasks[t].outcome = "error"

\* C27: a provider stream error never leaves a message in the Store: a
\* general or a poll-voting call whose stream fails, after any number of
\* content chunks, appends nothing to the history of its room, neither in the
\* failing step nor later.
C27_ErrorStoresNothing ==
    /\ [](\A t \in TaskIds : Failed(t) => StoredUnder(t) = {})
    /\ [][\A t \in TaskIds :
            ~Failed(t) /\ Failed(t)' => messages' = messages]_vars

\* a general call failed after it streamed a chunk
C27_Witness ==
    \E t \in TaskIds : /\ Failed(t) /\ tasks[t].kind = "general"
                        /\ LogOf(t, "llm_chunk") # {}

\* a poll-voting call failed after it streamed a chunk
C27_PollWitness ==
    \E t \in TaskIds : /\ Failed(t) /\ tasks[t].kind = "poll"
                        /\ LogOf(t, "llm_chunk") # {}

\* the error{LLM_ERROR} broadcasts of call t
LlmErrors(t) ==
    {k \in 1..Len(bcasts) : /\ bcasts[k].ev.type = "error"
                            /\ bcasts[k].ev.code = "LLM_ERROR"
                            /\ bcasts[k].ev.call = t
                            /\ bcasts[k].room = tasks[t].room_id}

\* C28: every LLM call whose provider stream fails, general or poll-voting,
\* broadcasts one error{code=LLM_ERROR} event to its room.
C28_ErrorBroadcast ==
    \A t \in TaskIds : Failed(t) => Cardinality(LlmErrors(t)) = 1

\* what holds: a failed general call broadcasts one error{LLM_ERROR}, a
\* failed poll-voting call broadcasts none, and no other call broadcasts one
C28_GeneralErrorBroadcast ==
    \A t \in TaskIds :
        Cardinality(LlmErrors(t)) =
            (IF Failed(t) /\ tasks[t].kind = "general" THEN 1 ELSE 0)

\* a general call failed while a stream was registered to its room
C28_GeneralWitness ==
    \E t \in TaskIds : /\ Failed(t) /\ tasks[t].kind = "general"
                        /\ \E k \in LlmErrors(t) : bcasts[k].to # {}

---------------------------------------------------------------------------
\* Claims about rooms and their LLM configurations.

\* the LLM ids of room r are pairwise distinct
UniqueLLMIds(rs, r) == NoDuplicates(LLMIdsOf(rs[r].llms))

\* the llm_added broadcasts to room r
AddedLog(log, r) ==
    {k \in 1..Len(log) : log[k].ev.type = "llm_added" /\ log[k].room = r}

\* a step adds an LLM to room r: the list grows or llm_added is broadcast
AddsLLM(r) ==
    \/ Len(rooms'[r].llms) > Len(rooms[r].llms)
    \/ AddedLog(bcasts', r) # AddedLog(bcasts, r)

\* an LLM is added to a room only under an id the room does not have: the
\* step appends one configuration and broadcasts one llm_added for it; so
\* an add_llm with an id already present changes nothing and broadcasts
\* nothing
C29_AddLLMRejectsDuplicate ==
    [][\A r \in DOMAIN rooms :
        AddsLLM(r) =>
            LET new == rooms'[r].llms[Len(rooms'[r].llms)]
            IN  /\ rooms'[r].llms = Append(rooms[r].llms, new)
                /\ ~HasLLM(rooms[r].llms, new.id)
                /\ AddedLog(bcasts', r) = AddedLog(bcasts, r) \cup {Len(bcasts')}
                /\ Len(bcasts') = Len(bcasts) + 1
                /\ bcasts'[Len(bcasts')].ev.llm_id = new.id]_vars

\* add_llm, update_llm and remove_llm keep the ids of a room distinct when
\* they are
C29_FramesKeepIdsUnique ==
    [][\A r \in DOMAIN rooms : UniqueLLMIds(rooms, r) => UniqueLLMIds(rooms', r)]_vars

\* C29: in every reachable state the LLM ids within a room are pairwise
\* distinct, after any sequence of create_room (with any initial LLM list),
\* add_llm, update_llm and remove_llm; an add_llm with an id already present
\* is rejected, changes nothing and broadcasts no llm_added.
C29_LLMIdsUnique ==
    /\ [](\A r \in DOMAIN rooms : UniqueLLMIds(rooms, r))
    /\ C29_AddLLMRejectsDuplicate

\* a stream joined to r1 added gpt to it, llm_added was broadcast once, and
\* the streams have read all their frames
C29_AddWitness ==
    /\ LLMIdsOf(rooms["r1"].llms) = <<"claude", "gemini", "gpt">>
    /\ Cardinality(AddedLog(bcasts, "r1")) = 1
    /\ nframes = MaxAdminFrames

\* room r was created as a private room
Private(r) == rooms[r].requested = "private" \/ rooms[r].visibility = "private"

\* get_room hands out every room, private or not, to whoever names its id
C30_GetRoomUnrestricted ==
    query.kind = "get" =>
        query.room = (IF query.room_id \in DOMAIN rooms THEN rooms[query.room_id]
                                                        ELSE NoRoom)

\* C30: for every caller u (an absent user_id included), every limit and
\* cursor, list_rooms never returns a private room whose creator is not u;
\* get_room returns a private room to any caller that knows its id.
C30_PrivateNotListed ==
    /\ query.kind = "list" =>
            \A i \in 1..Len(query.page) :
                Private(query.page[i]) => rooms[query.page[i]].created_by = query.user_id
    /\ C30_GetRoomUnrestricted

\* every room is stored as a public room, whatever visibility its
\* CreateRoomRequest asked for
C30_EveryRoomStoredPublic ==
    \A r \in DOMAIN rooms : rooms[r].visibility = "public"

\* a room created as private is fetched by id
C30_GetPrivateWitness ==
    /\ query.kind = "get" /\ query.room_id \in DOMAIN rooms
    /\ Private(query.room_id) /\ query.room.room_id = query.room_id

\* the room ids a finished walk returned, page after page
Walked == LET RECURSIVE Cat(_)
              Cat(n) == IF n = 0 THEN <<>> ELSE Cat(n - 1) \o query.pages[n].page
          IN  Cat(Len(query.pages))

\* the effective limit of the walk
WalkLimit == IF query.limit = 0 THEN DefaultPageSize ELSE query.limit

\* next_cursor is returned exactly with the pages that hold limit rooms,
\* and it is the last room of the page
C31_CursorIffFullPage ==
    query.kind = "walk" =>
        \A n \in 1..Len(query.pages) :
            LET pg == query.pages[n]
            IN  /\ (pg.next_cursor # NoName) <=> (Len(pg.page) = WalkLimit)
                /\ pg.next_cursor # NoName => pg.next_cursor = pg.page[Len(pg.page)]

\* what a walk yields: the rooms the caller has joined, without the rooms
\* stored as private by another creator, each once, newest first
C31_WalkListsJoinedRooms ==
    query.kind = "walk" /\ query.done =>
        /\ {Walked[i] : i \in 1..Len(Walked)} =
                {r \in UserRooms(participants, query.user_id) \cap DOMAIN rooms :
                    rooms[r].visibility # "private" \/ rooms[r].created_by = query.user_id}
        /\ NoDuplicates(Walked)
        /\ \A i, j \in 1..Len(Walked) :
              i < j => rooms[Walked[i]].created_at > rooms[Walked[j]].created_at

\* an unknown cursor resumes from the beginning
C31_UnknownCursorFromStart ==
    query.kind = "list" /\ query.cursor = NoSuchRoom =>
        \E order \in NewestFirst(rooms, Listable(rooms, participants, query.user_id)) :
            query.page = Slice(order, 0, IF query.limit = 0 THEN DefaultPageSize
                                                             ELSE query.limit)

\* C31: list_rooms(user_id = u), paged from no cursor through each returned
\* next_cursor until none is returned, yields exactly the rooms that are
\* public or were created by u, each once, sorted by created_at descending;
\* next_cursor is returned only when the page holds exactly limit rooms.
C31_WalkListsVisibleRooms ==
    /\ query.kind = "walk" /\ query.done =>
          /\ {Walked[i] : i \in 1..Len(Walked)} =
                  {r \in DOMAIN rooms :
                      ~Private(r) \/ rooms[r].created_by = query.user_id}
          /\ NoDuplicates(Walked)
          /\ \A i, j \in 1..Len(Walked) :
                i < j => rooms[Walked[i]].created_at > rooms[Walked[j]].created_at
    /\ C31_CursorIffFullPage

\* a walk with limit 1 over three joined rooms ended after its fourth page
C31_WalkWitness ==
    /\ query.kind = "walk" /\ query.done /\ query.limit = 1
    /\ Len(Walked) = 3 /\ Len(query.pages) = 4

---------------------------------------------------------------------------
\* Claims about task tracking.

\* the calls for llm_id tracked by the dispatcher of handler h
TrackedFor(h, llm_id) ==
    {t \in TaskIds : tasks[t].owner = h /\ tasks[t].llm_id = llm_id}

\* the calls an interrupt frame of handler h cancels in this step
InterruptedBy(h) ==
    IF handler[h].pc = "read" /\ handler'[h].pc = "cancel_wait"
    THEN {t \in TaskIds : ~tasks[t].must_cancel /\ tasks'[t].must_cancel}
    ELSE {}

\* C32: when a second call for the same llm_id is tracked while an earlier
\* one is in flight, the earlier task is not cancelled: an interrupt cancels
\* the newest call tracked for the LLM and no other call, and the completion
\* callbacks of the earlier task leave the newer task's entry in
\* active_llm_tasks, so the newest unfinished call stays the one an
\* interrupt finds.
C32_OverwriteKeepsNewerInterruptible ==
    /\ [](\A h \in Handlers : \A l \in LLMIds :
            TrackedFor(h, l) # {} /\ ~tasks[Latest(TrackedFor(h, l))].cb
                => active[h][l] = Latest(TrackedFor(h, l)))
    /\ [][\A h \in Handlers :
            handler[h].pc = "read" /\ handler'[h].pc = "cancel_wait" =>
                \E t \in TaskIds :
                    /\ InterruptedBy(h) = {t}
                    /\ t = Latest(TrackedFor(h, tasks[t].llm_id))
                    /\ handler'[h].await = t]_vars

\* two calls of claude were tracked by h1's dispatcher; the earlier one
\* returned and its callbacks ran, and an interrupt then cancelled the newer
C32_Witness ==
    /\ Len(tasks) = 2
    /\ tasks[1].owner = "h1" /\ tasks[2].owner = "h1"
    /\ tasks[1].llm_id = "claude" /\ tasks[2].llm_id = "claude"
    /\ tasks[1].outcome = "returned" /\ tasks[1].cb
    /\ tasks[2].outcome = "cancelled"
    /\ \E e \in intr : e.h = "h1" /\ e.cancelled = 2

\* the newer call was interrupted while the earlier one was in flight, and
\* the earlier one then ran to completion and stored its reply
C32_EarlierCompletesWitness ==
    /\ Len(tasks) = 2
    /\ tasks[1].owner = "h1" /\ tasks[2].owner = "h1"
    /\ tasks[1].llm_id = "claude" /\ tasks[2].llm_id = "claude"
    /\ tasks[2].outcome = "cancelled" /\ tasks[2].at = "created"
    /\ tasks[1].outcome = "returned" /\ StoredUnder(1) # {}
    /\ ~tasks[1].must_cancel

\* the tasks in active_llm_tasks of the dispatcher of handler h
ActiveTasks(h) == {active[h][l] : l \in LLMIds} \ {0}

\* C33 as stated: pending_tasks holds exactly the dispatcher's LLM tasks that
\* have not finished, every task in active_llm_tasks is unfinished and in
\* pending_tasks, and once every call has finished both structures are
\* empty.
C33_BookkeepingByFinish ==
    \A h \in Handlers :
        /\ pending[h] = {t \in TaskIds : tasks[t].owner = h /\ ~TaskDone(t)}
        /\ \A t \in ActiveTasks(h) : ~TaskDone(t) /\ t \in pending[h]
        /\ (\A t \in TaskIds : TaskDone(t)) => pending[h] = {} /\ ActiveTasks(h) = {}

\* C33, amended: the bookkeeping follows the done callbacks, which run after
\* the task has finished: pending_tasks holds exactly the dispatcher's tasks
\* whose done callbacks have not run, every task in active_llm_tasks is such
\* a task of the dispatcher and is in pending_tasks, and once the callbacks
\* of every call have run both structures are empty.
C33_BookkeepingByCallbacks ==
    \A h \in Handlers :
        /\ pending[h] = {t \in TaskIds : tasks[t].owner = h /\ ~tasks[t].cb}
        /\ \A t \in ActiveTasks(h) :
              t \in TaskIds /\ tasks[t].owner = h /\ ~tasks[t].cb /\ t \in pending[h]
        /\ (\A t \in TaskIds : tasks[t].cb) => pending[h] = {} /\ ActiveTasks(h) = {}

\* a call has finished and its done callbacks have not run yet: it is still
\* in both structures
C33_Witness ==
    \E t \in TaskIds : /\ TaskDone(t) /\ ~tasks[t].cb
                        /\ t \in pending[tasks[t].owner]
                        /\ t \in ActiveTasks(tasks[t].owner)

\* calls that returned, failed, opted out and were cancelled have all run
\* their callbacks
C33_AllFinishedWitness ==
    /\ Len(tasks) = MaxTasks
    /\ \A t \in TaskIds : tasks[t].cb
    /\ \E t \in TaskIds : tasks[t].outcome = "cancelled"
    /\ \E t \in TaskIds : tasks[t].outcome \in {"error", "returned"}

---------------------------------------------------------------------------
\* Claims about the end of a call.

\* call t broadcast llm_thinking
Thinking(t) ==
    /\ t \in TaskIds
    /\ \E k \in 1..Len(bcasts) : bcasts[k].ev.type = "llm_thinking" /\ bcasts[k].ev.call = t

\* the broadcasts of a terminal event of call t: llm_done or error{LLM_ERROR}
Terminals(t) ==
    {k \in 1..Len(bcasts) :
        /\ bcasts[k].room = tasks[t].room_id
        /\ \/ bcasts[k].ev.type = "llm_done" /\ bcasts[k].ev.call = t
           \/ /\ bcasts[k].ev.type = "error" /\ bcasts[k].ev.code = "LLM_ERROR"
              /\ bcasts[k].ev.call = t}

\* call t broadcast a terminal event, or no handler is registered in its room
Terminated(t) ==
    /\ t \in TaskIds
    /\ Terminals(t) # {} \/ RoomHandlers(registry, tasks[t].room_id) = {}

\* call t ended without a terminal event: a poll-voting call whose provider
\* failed, or a call cancelled because its originating stream ended
SilentEnd(t) ==
    /\ t \in TaskIds /\ TaskDone(t)
    /\ \/ tasks[t].kind = "poll" /\ tasks[t].outcome = "error"
       \/ tasks[t].outcome = "cancelled" /\ handler[tasks[t].owner].pc \in {"gather", "done"}

\* C34: every LLM call that broadcast llm_thinking eventually broadcasts a
\* terminal event (llm_done or error{LLM_ERROR}) to the handlers that stay
\* registered in its room, however the call ends.
C34_ThinkingLeadsToTerminal ==
    \A t \in 1..MaxTasks : Thinking(t) ~> Terminated(t)

\* what holds: a call that broadcast llm_thinking eventually broadcasts a
\* terminal event unless it is a poll-voting call whose provider failed or
\* it was cancelled by the end of its originating stream
C34_TerminalUnlessSilentEnd ==
    \A t \in 1..MaxTasks : Thinking(t) ~> (Terminated(t) \/ SilentEnd(t))

\* a poll-voting call failed and broadcast nothing while h1 stayed registered
C34_PollErrorWitness ==
    \E t \in TaskIds : /\ Thinking(t) /\ tasks[t].cb /\ ~Terminated(t)
                        /\ tasks[t].kind = "poll" /\ tasks[t].outcome = "error"

\* a call was cancelled by the end of h1's stream and broadcast nothing
\* while h2 stayed registered
C34_CloseWitness ==
    \E t \in TaskIds : /\ Thinking(t) /\ tasks[t].cb /\ ~Terminated(t)
                        /\ tasks[t].outcome = "cancelled"
                        /\ handler[tasks[t].owner].pc = "done"

---------------------------------------------------------------------------
\* Claims about chains of calls.

\* the call whose stored reply triggered call t, if a reply did
ChainParents(t) ==
    {p \in TaskIds : /\ TaskDone(p) /\ tasks[p].dispatched
                      /\ tasks[p].response_msg_id = tasks[t].trigger_msg_id}

\* the calls dispatch_llm_mentions is about to create for the reply of call
\* t, whose channel.close() returned
DueChained(t) ==
    IF /\ tasks[t].kind = "general" /\ ~tasks[t].opted_out
       /\ NonBlank(tasks[t].content)
    THEN Chained(tasks[t].mentions, tasks[t].llm_id)
    ELSE <<>>

\* C35: chaining terminates: from one human message the number of calls
\* spawned through dispatch_llm_mentions is bounded, whatever the replies
\* mention: no reply being finalized has calls to dispatch beyond the bound
\* on calls.
C35_ChainWithinBound ==
    \A t \in TaskIds :
        Runnable(t, "close") => Len(tasks) + Len(DueChained(t)) <= MaxLoopTasks

\* claude mentioned gemini and gemini mentioned claude: the chain from one
\* human message has called claude a second time and has used every call of
\* the bound
C35_MutualMentions ==
    /\ Len(tasks) = MaxLoopTasks
    /\ \A t \in 2..MaxLoopTasks : (t - 1) \in ChainParents(t)
    /\ \A t \in 1..MaxLoopTasks : tasks[t].llm_id = (IF t % 2 = 1 THEN "claude" ELSE "gemini")

\* what holds: every chained call was triggered by the stored reply of a
\* call of another LLM
C35_ChainedFromOtherLLM ==
    \A t \in TaskIds :
        tasks[t].trigger_msg_id \in {tasks[p].response_msg_id : p \in TaskIds \ {t}} =>
            \E p \in ChainParents(t) : tasks[p].llm_id # tasks[t].llm_id

---------------------------------------------------------------------------
\* Claims about polls of several rooms.

\* the room of poll poll_id
PollRoom(poll_id) == polls[PollIndex(polls, poll_id)].room_id

\* the poll_voted and poll_closed broadcasts
PollEvents ==
    {k \in 1..Len(bcasts) : bcasts[k].ev.type \in {"poll_voted", "poll_closed"}}

\* C36: poll operations stay inside the poll's room: a vote or a close, by a
\* frame of a handler or by a vote_on_poll tool call, changes a poll only of
\* the room the handler is joined to or the call runs in, and every
\* poll_voted and poll_closed event is broadcast to the room of its poll.
\* (Each change of a poll is broadcast to the room of the handler or call
\* that made it.)
C36_PollEventsInPollRoom ==
    \A k \in PollEvents : bcasts[k].room = PollRoom(bcasts[k].ev.poll_id)

\* what holds: poll_voted and poll_closed go to a room only for a poll that
\* exists, and a poll_voted event only for a vote the poll holds or held
C36_PollEventsOfStoredPolls ==
    \A k \in PollEvents : bcasts[k].ev.poll_id \in PollIds

\* u2, joined to r2 only, voted on a poll of r1 and poll_voted went to r2
C36_CrossRoomVote ==
    \E k \in PollEvents :
        /\ bcasts[k].ev.type = "poll_voted" /\ bcasts[k].ev.voter_id = "u2"
        /\ PollRoom(bcasts[k].ev.poll_id) = "r1" /\ bcasts[k].room = "r2"

\* u2, joined to r2 only, closed a poll of r1
C36_CrossRoomClose ==
    \E k \in PollEvents :
        /\ bcasts[k].ev.type = "poll_closed" /\ bcasts[k].ev.closed_by_id = "u2"
        /\ PollRoom(bcasts[k].ev.poll_id) = "r1" /\ bcasts[k].room = "r2"
        /\ polls[PollIndex(polls, bcasts[k].ev.poll_id)].status = "closed"

---------------------------------------------------------------------------
\* Claims about a handler that is not joined.

\* the store and the registry hold nothing of user u and handler h: no
\* message, poll or vote of u, no poll closed (only h sends close_poll), the
\* rooms as they were created, u no participant, h not registered
Untouched(h, u) ==
    /\ \A r \in DOMAIN messages : \A i \in 1..Len(messages[r]) :
            messages[r][i].sender_id # u
    /\ \A i \in 1..Len(polls) :
            /\ polls[i].creator_id # u
            /\ polls[i].status = "open"
            /\ \A o \in 1..Len(polls[i].options) :
                  \A v \in 1..Len(polls[i].options[o].votes) :
                      polls[i].options[o].votes[v].voter_id # u
    /\ rooms = FirstRooms
    /\ \A r \in DOMAIN registry : h \notin registry[r]
    /\ \A pr \in participants : pr[2] # u

\* no stream was sent an event of a kind only h1 causes here
NoBroadcastOf ==
    \A k \in 1..Len(bcasts) :
        bcasts[k].ev.type \in {"user_typing", "poll_voted", "poll_closed", "llm_added",
                               "llm_updated", "llm_removed"} => bcasts[k].to = {}

\* C37: a handler that is not joined changes no shared state: before any
\* join and after a join refused with ROOM_NOT_FOUND, none of its frames
\* changes the store or the registry or causes a broadcast.  h1 joins no
\* room that exists.
C37_UnjoinedChangesNothing == Untouched("h1", "u1") /\ NoBroadcastOf

\* what holds: until its first join frame, the frames of h1 change nothing
C37_BeforeJoinChangesNothing ==
    handler["h1"].room_id = NoName => Untouched("h1", "u1") /\ NoBroadcastOf

\* h1 sent frames before any join while h2 had a poll open in r1
C37_BeforeJoinWitness ==
    /\ handler["h1"].room_id = NoName /\ Len(polls) = 1 /\ nframes = MaxUnjoinedFrames

\* after its join was refused h1 voted on the poll of r1 and closed it
C37_RefusedThenVotes ==
    /\ ErrorsIn(outbound["h1"], "ROOM_NOT_FOUND") # {}
    /\ \E i \in 1..Len(polls) :
          /\ polls[i].room_id = "r1" /\ polls[i].status = "closed"
          /\ \E o \in 1..Len(polls[i].options) :
                \E v \in 1..Len(polls[i].options[o].votes) :
                    polls[i].options[o].votes[v].voter_id = "u1"

---------------------------------------------------------------------------
\* Claims about llm_done and interrupts.

\* the llm_done broadcasts of call t that reached handler h
DonesTo(t, h) == {k \in LogOf(t, "llm_done") : h \in bcasts[k].to}

\* C38: each handler receives at most one llm_done per LLM call, also when
\* an interrupt lands while the call is finalizing, and the llm_done of
\* cancel_llm_task (the one without a message_id) is never broadcast for a
\* call whose message was stored.
C38_AtMostOneDone ==
    \A t \in TaskIds :
        /\ \A h \in Handlers : Cardinality(DonesTo(t, h)) <= 1
        /\ StoredUnder(t) # {} =>
              \A k \in LogOf(t, "llm_done") : bcasts[k].ev.message_id # NoStr

\* an interrupt reached a call that had streamed content and was closing
\* its channel: the call was cancelled there, stored nothing, and the one
\* llm_done both handlers got for it is the canceller's
C38_Witness ==
    \E t \in TaskIds :
        /\ tasks[t].outcome = "cancelled" /\ tasks[t].at = "close" /\ tasks[t].cb
        /\ NonBlank(tasks[t].content)
        /\ StoredUnder(t) = {}
        /\ \A h \in Handlers : Cardinality(DonesTo(t, h)) = 1
        /\ \A k \in LogOf(t, "llm_done") : bcasts[k].ev.message_id = NoStr

\* an interrupt was sent for an LLM whose call had returned and stored its
\* message: the handlers hold the call's own llm_done only
C38_StoredWitness ==
    \E t \in TaskIds :
        /\ tasks[t].outcome = "returned" /\ StoredUnder(t) # {}
        /\ \E x \in intr : /\ x.h = tasks[t].owner /\ x.llm_id = tasks[t].llm_id
                             /\ x.cancelled = 0
        /\ \A h \in Handlers : Cardinality(DonesTo(t, h)) = 1

---------------------------------------------------------------------------
\* Claims about the order of room_state and the broadcasts.

\* the events of q that are sent to one handler only: room_state and the
\* errors of a refused join or an invalid poll
Direct(ev) ==
    \/ ev.type = "room_state"
    \/ ev.type = "error" /\ ev.code \in {"ROOM_NOT_FOUND", "INVALID_POLL"}

\* C39: room_state comes first in a joining handler's queue: no room
\* broadcast is enqueued to a handler before its room_state, and no message
\* whose message_received follows a room_state in the queue is in that
\* room_state's message list, also when other handlers post messages around
\* the join.
C39_RoomStateFirst ==
    \A h \in Handlers :
        /\ \A j \in 1..Len(outbound[h]) :
              ~Direct(outbound[h][j]) => \E i \in RoomStates(outbound[h]) : i < j
        /\ \A i \in RoomStates(outbound[h]) : \A j \in (i + 1)..Len(outbound[h]) :
              outbound[h][j].type = "message_received" =>
                  outbound[h][j].message_id \notin Elements(outbound[h][i].messages)

\* a handler joined a room in which another handler had posted a message,
\* which its room_state lists, and then received a message_received
C39_Witness ==
    \E h \in Handlers : \E g \in Handlers \ {h} : \E i \in RoomStates(outbound[h]) :
        /\ \E k \in 1..Len(outbound[g]) :
              /\ outbound[g][k].type = "message_received"
              /\ outbound[g][k].message_id \in Elements(outbound[h][i].messages)
        /\ \E j \in (i + 1)..Len(outbound[h]) : outbound[h][j].type = "message_received"

---------------------------------------------------------------------------
\* Claims about the calls one reply spawns.

\* the calls dispatch_llm_mentions created for the reply of call p
ChainedBy(p) ==
    {t \in TaskIds : tasks[p].dispatched /\ TaskDone(p)
                      /\ tasks[t].trigger_msg_id = tasks[p].response_msg_id}

\* C40: one finished reply spawns at most one chained call per target LLM,
\* also when the merged mention list names the same LLM several times.
C40_OneCallPerTarget ==
    \A p \in TaskIds : \A t1, t2 \in ChainedBy(p) :
        tasks[t1].llm_id = tasks[t2].llm_id => t1 = t2

\* what holds: a reply spawns one call for each mention, in order, that
\* names an LLM other than its own
C40_OneCallPerMention ==
    \A p \in TaskIds :
        tasks[p].dispatched /\ TaskDone(p) =>
            \E first \in 1..(MaxLoopTasks + 1) :
                LET chained == Chained(tasks[p].mentions, tasks[p].llm_id)
                IN  /\ ChainedBy(p) = {first + i - 1 : i \in 1..Len(chained)}
                    /\ \A i \in 1..Len(chained) : tasks[first + i - 1].llm_id = chained[i]

\* the reply of claude named gemini in two mention tool calls and two calls
\* of gemini run for it
C40_TwoCallsWitness ==
    \E p \in TaskIds :
        /\ tasks[p].mentions = <<"gemini", "gemini">>
        /\ Cardinality(ChainedBy(p)) = 2
        /\ \A t \in ChainedBy(p) : tasks[t].llm_id = "gemini" /\ tasks[t].pc # "created"

\* the merged list names "Cl A" by its display name (a mention tool call) and
\* in the underscore form cl_a (an @text mention, which differs from the
\* lowercased display name and so was appended): dispatch_llm_mentions
\* resolves both to the same LLM and creates two calls of it
C40_NameAndUnderscore ==
    /\ query.kind = "chain"
    /\ query.llms = <<LLMClA, LLMG>>
    /\ query.mentions = <<LLMClA.display_name, Underscored(Lower(LLMClA.display_name))>>
    /\ query.results = <<(<<LLMClA, LLMClA>>)>>

====
